---- MODULE Spec2Model ----
(***************************************************************************)
(* Model of the streaming HPROF record iterator (src/src/stream.rs) and of *)
(* the readers it is built on (try_byteorder.rs, records.rs, decl.rs).     *)
(*                                                                         *)
(* The byte source is a finite byte sequence that ends either with end of  *)
(* file or with an I/O error.  One action is one call of                   *)
(* StreamHprofIterator::next; the recursion between read_record and        *)
(* read_data_record is part of that one action.                            *)
(*                                                                         *)
(* Identifiers and 64-bit values are kept as big-endian byte tuples (the   *)
(* 4-byte identifier widened with four leading zero bytes); values of at   *)
(* most four bytes are decoded to numbers.                                 *)
(***************************************************************************)
EXTENDS Integers, Sequences, FiniteSets, TLC

VARIABLES
    stream,     \* the source R: [data, end, pos]
    hprof,      \* StreamHprofReader: id_reader, timestamp, load flags, class_info
    state,      \* StreamHprofIterator.state: [tag, ts, limit, start, size]
    last        \* what the latest call of next returned, and where it started

vars == <<stream, hprof, state, last>>

(***************************************************************************)
(* Tags (decl.rs).                                                         *)
(***************************************************************************)
TAG_STRING == 1
TAG_LOAD_CLASS == 2
TAG_UNLOAD_CLASS == 3
TAG_STACK_FRAME == 4
TAG_STACK_TRACE == 5
TAG_ALLOC_SITES == 6
TAG_HEAP_SUMMARY == 7
TAG_START_THREAD == 10
TAG_END_THREAD == 11
TAG_HEAP_DUMP == 12
TAG_HEAP_DUMP_SEGMENT == 28
TAG_HEAP_DUMP_END == 44

TAG_GC_ROOT_UNKNOWN == 255
TAG_GC_ROOT_JNI_GLOBAL == 1
TAG_GC_ROOT_JNI_LOCAL == 2
TAG_GC_ROOT_JAVA_FRAME == 3
TAG_GC_ROOT_NATIVE_STACK == 4
TAG_GC_ROOT_STICKY_CLASS == 5
TAG_GC_ROOT_THREAD_BLOCK == 6
TAG_GC_ROOT_MONITOR_USED == 7
TAG_GC_ROOT_THREAD_OBJ == 8
TAG_GC_CLASS_DUMP == 32
TAG_GC_INSTANCE_DUMP == 33
TAG_GC_OBJ_ARRAY_DUMP == 34
TAG_GC_PRIM_ARRAY_DUMP == 35

(***************************************************************************)
(* FieldType (decl.rs): the wire codes and FieldType::try_from.            *)
(***************************************************************************)
FT_Object == 2
FT_Bool == 4
FT_Char == 5
FT_Float == 6
FT_Double == 7
FT_Byte == 8
FT_Short == 9
FT_Int == 10
FT_Long == 11

FieldTypeCodes ==
    {FT_Object, FT_Bool, FT_Char, FT_Float, FT_Double, FT_Byte, FT_Short, FT_Int, FT_Long}

\* FieldType::byte_size; 0 stands for the Err it returns for Object.
byte_size(ty) ==
    CASE ty \in {FT_Byte, FT_Bool} -> 1
      [] ty \in {FT_Char, FT_Short} -> 2
      [] ty \in {FT_Float, FT_Int} -> 4
      [] ty \in {FT_Double, FT_Long} -> 8
      [] OTHER -> 0

(***************************************************************************)
(* Small helpers.                                                          *)
(***************************************************************************)
Min(a, b) == IF a <= b THEN a ELSE b

RECURSIVE MinOf(_)
MinOf(s) == IF Len(s) = 1 THEN s[1] ELSE Min(s[1], MinOf(Tail(s)))

\* Big-endian value of at most four bytes (byteorder's NetworkEndian reads).
RECURSIVE BE(_)
BE(bs) == IF bs = <<>> THEN 0 ELSE BE(SubSeq(bs, 1, Len(bs) - 1)) * 256 + bs[Len(bs)]

RECURSIVE Reverse(_)
Reverse(s) == IF s = <<>> THEN <<>> ELSE Append(Reverse(Tail(s)), Head(s))

Zero4 == <<0, 0, 0, 0>>
IdZero == Zero4 \o Zero4

(***************************************************************************)
(* The states of the iterator and what a call of next returns.             *)
(***************************************************************************)
\* The timestamp of a state or of a return value that carries none.
NoTs == Zero4 \o Zero4

InNormal == [tag |-> "InNormal", ts |-> NoTs, limit |-> 0, start |-> 0, size |-> 0]
Eof == [tag |-> "Eof", ts |-> NoTs, limit |-> 0, start |-> 0, size |-> 0]
Empty == [tag |-> "None", ts |-> NoTs, limit |-> 0, start |-> 0, size |-> 0]
\* InData(ts, Take { limit }); start and size remember where the segment's
\* payload begins and the payload_size of its header.
InData(ts, limit, start, size) ==
    [tag |-> "InData", ts |-> ts, limit |-> limit, start |-> start, size |-> size]

RetInit == [kind |-> "init", rec |-> "", sub |-> 0, ts |-> NoTs, vals |-> <<>>]
RetNone == [kind |-> "none", rec |-> "", sub |-> 0, ts |-> NoTs, vals |-> <<>>]
\* An Err, or a call that does not return: it panics or never ends.
RetErr(c) ==
    [kind |-> IF c.err \in {"panic", "hang"} THEN c.err ELSE "err",
     rec |-> c.err, sub |-> 0, ts |-> NoTs, vals |-> c.args]
RetItem(rec, sub, ts, vals) ==
    [kind |-> "item", rec |-> rec, sub |-> sub, ts |-> ts, vals |-> vals]

(***************************************************************************)
(* The cursor of one call: position in the source, the limits of the       *)
(* std::io::Take wrappers around it (innermost last), the first error met  *)
(* ("" while there is none), its arguments, and the values decoded so far. *)
(***************************************************************************)
Cursor(pos, lims) ==
    [pos |-> pos, lims |-> lims, err |-> "", args |-> <<>>, vals |-> <<>>, got |-> <<>>]

Failed(c) == c.err # ""

Fail(c, e, args) == IF Failed(c) THEN c ELSE [c EXCEPT !.err = e, !.args = args]

\* Bytes a read can get now: Take::read returns Ok(0) at limit 0 without
\* touching the inner reader, and otherwise asks it for at most `limit` bytes.
Room(c) == MinOf(<<Len(stream.data) - c.pos>> \o c.lims)

AtLimit(c) == \E i \in 1..Len(c.lims) : c.lims[i] = 0

Advance(c, k) ==
    [c EXCEPT !.pos = @ + k,
              !.lims = [i \in 1..Len(c.lims) |-> c.lims[i] - k],
              !.got = SubSeq(stream.data, c.pos + 1, c.pos + k)]

\* What a read finds once no byte is left for it: the limit of a Take, the
\* end of the source, or the I/O error the source ends with.
EndError(c) ==
    IF ~AtLimit(c) /\ stream.end = "ioerr" THEN "Io" ELSE "UnexpectedEof"

\* Read::read_exact (the default implementation: it keeps what it has read
\* when the source runs short).
ShortRead(d) == Fail(d, EndError(d), <<>>)

read_exact(c, n) ==
    IF Failed(c) THEN c
    ELSE IF Room(c) >= n THEN Advance(c, n)
    ELSE ShortRead(Advance(c, Room(c)))

\* A lookahead without the end-of-input case: every empty read is an error.
try_read_exact_strict(c, n) == [none |-> n = 0, c |-> read_exact(c, n)]

\* A lookahead that takes a failed first read for the end of the input.
try_read_exact_swallow(c, n) ==
    IF n = 0 \/ Room(c) = 0
    THEN [none |-> TRUE, c |-> c]
    ELSE [none |-> FALSE, c |-> read_exact(c, n)]

\* A try_read_exact that fills the empty buffer: Some(Ok(())) unless the
\* source is at its end.
try_read_exact_filled(c, n) ==
    IF Room(c) = 0 /\ EndError(c) = "UnexpectedEof"
    THEN [none |-> TRUE, c |-> c]
    ELSE [none |-> FALSE, c |-> read_exact(c, n)]

\* ReadBytesTryExt::try_read_exact: [none, c].
try_read_exact(c, n) ==
    IF n = 0 \/ (Room(c) = 0 /\ EndError(c) = "UnexpectedEof")
    THEN [none |-> TRUE, c |-> c]
    ELSE [none |-> FALSE, c |-> read_exact(c, n)]

try_read_u8(c) == try_read_exact(c, 1)

\* A take whose limit is never reached.
take_unbounded(c, n) == [c EXCEPT !.lims = Append(@, n + Len(stream.data))]

\* std::io::Read::take and Take::into_inner (which skips nothing).
take(c, n) == [c EXCEPT !.lims = Append(@, n)]
into_inner(c) == [c EXCEPT !.lims = SubSeq(@, 1, Len(@) - 1)]

Push(c, v) == IF Failed(c) THEN c ELSE [c EXCEPT !.vals = Append(@, v)]

\* The last value pushed.
Top(c) == c.vals[Len(c.vals)]

\* The two's-complement value of big-endian bytes.
SignedBE(bs) ==
    LET low == BE([bs EXCEPT ![1] = @ % 128]) IN
    IF bs[1] < 128 THEN low
    ELSE CASE Len(bs) = 1 -> low - 128
           [] Len(bs) = 2 -> low - 32768
           [] Len(bs) = 4 -> low - 2147483647 - 1

\* IdReader::read_id widens what it read in the configured order.
NativeBytes(bs) == Reverse(bs)
Ordered(bs) == IF hprof.order = "Native" THEN NativeBytes(bs) ELSE bs
Widened(bs) == IF Len(bs) = 4 THEN Zero4 \o Ordered(bs) ELSE Ordered(bs)

\* The value byteorder's read_* makes of the bytes it read (64-bit values
\* stay byte strings).
Value(f, bs) ==
    CASE f \in {"u8", "u16", "u32"} -> BE(bs)
      [] f \in {"i8", "i16", "i32"} -> SignedBE(bs)
      [] f = "bool" -> BE(bs) # 0
      [] f = "id" -> Widened(bs)
      [] OTHER -> bs

Size(f) ==
    CASE f \in {"u8", "i8", "bool"} -> 1
      [] f \in {"u16", "i16"} -> 2
      [] f \in {"u32", "i32"} -> 4
      [] OTHER -> 8

PushGot(d, f) == IF Failed(d) THEN d ELSE Push(d, Value(f, d.got))

read_scalar(c, f) == PushGot(read_exact(c, Size(f)), f)

read_u8(c) == read_scalar(c, "u8")
read_u16(c) == read_scalar(c, "u16")
read_u32(c) == read_scalar(c, "u32")
read_u64(c) == read_scalar(c, "u64")

\* A read_id that takes every size other than 4 for 8.
read_id_eight(c) ==
    IF Failed(c) THEN c
    ELSE PushGot(read_exact(c, IF hprof.id_size = 4 THEN 4 ELSE 8), "id")

\* IdReader::read_id: 4 or 8 bytes in the configured order, widened.
read_id(c) ==
    IF Failed(c) THEN c
    ELSE IF hprof.id_size \in {4, 8} THEN PushGot(read_exact(c, hprof.id_size), "id")
    ELSE Fail(c, "InvalidHeader", <<>>)

\* The values a decoder pushed become one value of the enclosing decoder.
Fresh(c) == [c EXCEPT !.vals = <<>>]
Group(c, d) == IF Failed(d) THEN [d EXCEPT !.vals = c.vals]
               ELSE [d EXCEPT !.vals = Append(c.vals, d.vals)]

(***************************************************************************)
(* Fixed layouts, read field by field in the order of the source; a failed *)
(* read ends the decoder (the ? operator).                                 *)
(***************************************************************************)
read_field(c, f) == IF f = "id" THEN read_id(c) ELSE read_scalar(c, f)

RECURSIVE read_fields(_, _)
read_fields(c, layout) ==
    IF layout = <<>> \/ Failed(c) THEN c
    ELSE read_fields(read_field(c, Head(layout)), Tail(layout))

\* A counted loop `for _ in 0..n { push(read layout) }`.
RECURSIVE read_n(_, _, _)
read_n(c, n, layout) ==
    IF Failed(c) \/ n = 0 THEN c
    ELSE read_n(Group(c, read_fields(Fresh(c), layout)), n - 1, layout)

\* The loop whose count is the last field of the header d.
read_counted(d, layout) ==
    IF Failed(d) THEN d ELSE Group(d, read_n(Fresh(d), Top(d), layout))

\* ReadHprofString::read_string: n raw bytes as the source's string type.
read_string(c, n) == PushGot(read_exact(c, n), "bytes")

\* A string as long as the whole payload.
StringSize_whole(d, payload_size) == payload_size

\* u32 subtraction `payload_size -= id_size`: it wraps without overflow
\* checks (the wrapped length, at least 2^32 - 2^31, is longer than every
\* source) and panics with them.
StringSize(d, payload_size) ==
    IF payload_size >= hprof.id_size THEN payload_size - hprof.id_size
    ELSE Len(stream.data) + 1

read_string_body(d, payload_size) ==
    IF Failed(d) THEN d
    ELSE IF payload_size < hprof.id_size /\ hprof.overflow_checks
    THEN Fail(d, "panic", <<>>)
    ELSE read_string(d, StringSize(d, payload_size))

read_01_string(c, payload_size) == read_string_body(read_id(c), payload_size)

read_02_load_class(c) == read_fields(c, <<"u32", "id", "u32", "id">>)
read_03_unload_class(c) == read_fields(c, <<"u32">>)
read_04_frame(c) == read_fields(c, <<"id", "id", "id", "id", "u32", "i32">>)
read_05_trace(c) == read_counted(read_fields(c, <<"u32", "u32", "u32">>), <<"id">>)
read_06_alloc_sites(c) ==
    read_counted(read_fields(c, <<"u16", "u32", "u32", "u32", "u64", "u64", "u32">>),
                 <<"u8", "u32", "u32", "u32", "u32", "u32", "u32">>)
read_07_heap_summary(c) == read_fields(c, <<"u32", "u32", "u64", "u64">>)
read_0a_start_thread(c) == read_fields(c, <<"u32", "id", "u32", "id", "id", "id">>)
read_0b_end_thread(c) == read_fields(c, <<"u32">>)

(***************************************************************************)
(* read_type_value, read_class_description, read_object and the array      *)
(* readers of stream.rs.                                                   *)
(***************************************************************************)
IsFieldType(b) == b \in FieldTypeCodes

\* What read_type_value reads for each FieldType.
TypeField(ty) ==
    CASE ty = FT_Object -> "id"
      [] ty = FT_Bool -> "bool"
      [] ty = FT_Char -> "u16"
      [] ty = FT_Float -> "u32"
      [] ty = FT_Double -> "u64"
      [] ty = FT_Byte -> "i8"
      [] ty = FT_Short -> "i16"
      [] ty = FT_Int -> "i32"
      [] ty = FT_Long -> "u64"

read_type_value(c, ty) == read_field(c, TypeField(ty))

\* A conversion that takes a byte that is no field kind for Byte.
try_from_default(d) ==
    IF Failed(d) \/ IsFieldType(Top(d)) THEN d
    ELSE [d EXCEPT !.vals[Len(d.vals)] = FT_Byte]

\* `FieldType::try_from(read_u8()?).or(Err(InvalidField))?`
try_from(d) ==
    IF Failed(d) \/ IsFieldType(Top(d)) THEN d ELSE Fail(d, "InvalidField", <<>>)

read_field_type(c) == try_from(read_u8(c))

\* The value of the type just read.
read_typed(d) == IF Failed(d) THEN d ELSE read_type_value(d, Top(d))

\* One constant-pool entry (key "u16") or one static field (key "id").
read_valued_entry(c, key) ==
    Group(c, read_typed(read_field_type(read_field(Fresh(c), key))))

RECURSIVE read_valued_entries(_, _, _)
read_valued_entries(c, n, key) ==
    IF Failed(c) \/ n = 0 THEN c
    ELSE read_valued_entries(read_valued_entry(c, key), n - 1, key)

read_instance_field(c) == Group(c, read_field_type(read_id(Fresh(c))))

RECURSIVE read_instance_fields(_, _)
read_instance_fields(c, n) ==
    IF Failed(c) \/ n = 0 THEN c
    ELSE read_instance_fields(read_instance_field(c), n - 1)

\* The entries of a counted table, as one value after the count d read.
read_entries(d, key) ==
    IF Failed(d) THEN d
    ELSE Group(d, IF key = "field" THEN read_instance_fields(Fresh(d), Top(d))
                  ELSE read_valued_entries(Fresh(d), Top(d), key))

\* A counted table: the u16 count, then the entries.
read_table(c, key) == read_entries(read_u16(c), key)

read_class_description(c) ==
    read_table(read_table(read_table(
        read_fields(c, <<"id", "u32", "id", "id", "id", "id", "id", "id", "u32">>),
        "u16"), "id"), "field")

ClassDescription(v) ==
    [class_id |-> v[1], stack_trace_serial |-> v[2], super_class_object_id |-> v[3],
     instance_size |-> v[9], const_fields |-> v[11], static_fields |-> v[13],
     instance_fields |-> v[15]]

\* `io::copy(&mut substream, &mut io::sink())?`: what the Take still lets
\* through is read and dropped; a source that ends with an I/O error before
\* the limit is reached hands that error on.
copy_to_sink(c) ==
    IF Failed(c) THEN c
    ELSE IF EndError(Advance(c, Room(c))) = "Io"
    THEN Fail([Advance(c, Room(c)) EXCEPT !.vals = c.vals], "Io", <<>>)
    ELSE [Advance(c, Room(c)) EXCEPT !.got = c.got]

\* read_data_20_class_dump after the fields up to instance_size: the three
\* tables are read through `stream.take(instance_size as u64)`, and what the
\* Take has left is dropped.
read_data_20_tables(h) ==
    IF Failed(h) THEN h
    ELSE into_inner(copy_to_sink(
             read_table(read_table(read_table(take(h, Top(h)), "u16"), "id"), "field")))

read_data_20_class_dump(c) ==
    read_data_20_tables(
        read_fields(c, <<"id", "u32", "id", "id", "id", "id", "id", "id", "u32">>))

\* An insert that keeps the entry a key already has.
insert_keeps_first(class_info, key, desc) ==
    [k \in DOMAIN class_info \cup {key} |->
        IF k \in DOMAIN class_info THEN class_info[k] ELSE desc]

\* An insert into a table that holds one description at a time.
insert_alone(class_info, key, desc) == [k \in {key} |-> desc]

\* HashMap::insert.
insert(class_info, key, desc) ==
    [k \in DOMAIN class_info \cup {key} |-> IF k = key THEN desc ELSE class_info[k]]

\* `values.push((field_descr, read_type_value(..)?))` of read_object.
push_value(c, d, object_id, class_id, field) ==
    IF Failed(d) THEN Group(c, d)
    ELSE Push([d EXCEPT !.vals = c.vals], <<object_id, class_id, field, Top(d)>>)

RECURSIVE read_object_fields(_, _, _, _)
read_object_fields(c, object_id, class_id, fields) ==
    IF fields = <<>> \/ Failed(c) THEN c
    ELSE read_object_fields(
             push_value(c, read_type_value(Fresh(c), Head(fields)[2]),
                        object_id, class_id, Head(fields)),
             object_id, class_id, Tail(fields))

\* read_object.  The walk down the class chain stops at id 0; a class met
\* again with no byte read since is a walk that never ends ("hang").
RECURSIVE read_object_chain(_, _, _, _, _)
\* A walk that reads the fields of the object's own class only.
read_object_super_stops(c, d, class_info, object_id, class_desc, seen) == d

read_object_super(c, d, class_info, object_id, class_desc, seen) ==
    read_object_chain(d, class_info, object_id, class_desc.super_class_object_id,
                      IF d.pos = c.pos THEN seen \cup {class_desc.class_id} ELSE {})

\* A walk that takes a class missing from the table for the end of the chain.
read_object_chain_lenient(c, class_info, object_id, current_class_obj_id, seen) ==
    IF Failed(c) \/ current_class_obj_id = IdZero THEN c
    ELSE IF current_class_obj_id \notin DOMAIN class_info THEN c
    ELSE IF current_class_obj_id \in seen THEN Fail(c, "hang", <<>>)
    ELSE read_object_super(
             c, read_object_fields(c, object_id, current_class_obj_id,
                                   class_info[current_class_obj_id].instance_fields),
             class_info, object_id, class_info[current_class_obj_id], seen)

read_object_chain(c, class_info, object_id, current_class_obj_id, seen) ==
    IF Failed(c) \/ current_class_obj_id = IdZero THEN c
    ELSE IF current_class_obj_id \notin DOMAIN class_info
    THEN Fail(c, "UnknownClass", <<current_class_obj_id>>)
    ELSE IF current_class_obj_id \in seen THEN Fail(c, "hang", <<>>)
    ELSE read_object_super(
             c, read_object_fields(c, object_id, current_class_obj_id,
                                   class_info[current_class_obj_id].instance_fields),
             class_info, object_id, class_info[current_class_obj_id], seen)

read_object_body(h, class_info) ==
    IF Failed(h) THEN h
    ELSE into_inner(read_object_chain(Fresh(take(h, h.vals[4])), class_info,
                                      h.vals[1], h.vals[3], {}))

read_object(c, class_info) ==
    read_object_body(read_fields(c, <<"id", "u32", "id", "u32">>), class_info)

\* The item of an array record: its id, its class or type, its elements.
ArrayItem(h, d, data) ==
    IF Failed(d) THEN d ELSE [d EXCEPT !.vals = <<h.vals[1], h.vals[4], data>>]

read_object_array_body(h, d) == ArrayItem(h, d, d.vals)

read_object_array_elements(h) ==
    IF Failed(h) THEN h
    ELSE read_object_array_body(h, read_n(Fresh(h), h.vals[3], <<"id">>))

read_object_array(c) ==
    read_object_array_elements(read_fields(c, <<"id", "u32", "u32", "id">>))

\* The elements of a primitive array: n x size bytes in one read_exact
\* (byteorder's read_*_into), or one read_u8 per Bool.
ElementValue(bs, ty) ==
    CASE ty = FT_Bool -> BE(bs) # 0
      [] ty \in {FT_Char, FT_Float} -> BE(bs)
      [] ty \in {FT_Byte, FT_Short, FT_Int} -> SignedBE(bs)
      [] OTHER -> bs

RECURSIVE Elements(_, _)
Elements(bs, ty) ==
    IF bs = <<>> THEN <<>>
    ELSE <<ElementValue(SubSeq(bs, 1, byte_size(ty)), ty)>>
         \o Elements(SubSeq(bs, byte_size(ty) + 1, Len(bs)), ty)

PushElements(d, ty) == Push(d, Elements(d.got, ty))

read_elements(c, n, ty) ==
    PushElements(read_exact(c, IF n > Room(c) THEN Room(c) + 1 ELSE n * byte_size(ty)),
                 ty)

read_primitive_array_body(h, d) == ArrayItem(h, d, Top(d))

\* A primitive array that takes elements of kind Object as identifiers.
read_primitive_array_elements_ids(h) ==
    IF Failed(h) THEN h
    ELSE read_primitive_array_body(h, read_elements(Fresh(h), h.vals[3], h.vals[4]))

read_primitive_array_elements(h) ==
    IF Failed(h) THEN h
    ELSE IF h.vals[4] = FT_Object THEN Fail(h, "InvalidField", <<>>)
    ELSE read_primitive_array_body(h, read_elements(Fresh(h), h.vals[3], h.vals[4]))

read_primitive_array(c) ==
    read_primitive_array_elements(read_field_type(read_fields(c, <<"id", "u32", "u32">>)))

(***************************************************************************)
(* The iterator.                                                           *)
(***************************************************************************)
\* What read_record or read_data_record hands back to next: the source
\* position, the iterator state and class table it leaves, the value it
\* returns, and the segments it closed on the way.
Done(c, st, class_info, ret, left) ==
    [pos |-> c.pos, state |-> st, class_info |-> class_info, ret |-> ret, left |-> left]

TopTags ==
    {TAG_STRING, TAG_LOAD_CLASS, TAG_UNLOAD_CLASS, TAG_STACK_FRAME, TAG_STACK_TRACE,
     TAG_ALLOC_SITES, TAG_HEAP_SUMMARY, TAG_START_THREAD, TAG_END_THREAD}

RecordName(tag) ==
    CASE tag = TAG_STRING -> "String"
      [] tag = TAG_LOAD_CLASS -> "LoadClass"
      [] tag = TAG_UNLOAD_CLASS -> "UnloadClass"
      [] tag = TAG_STACK_FRAME -> "StackFrame"
      [] tag = TAG_STACK_TRACE -> "StackTrace"
      [] tag = TAG_ALLOC_SITES -> "AllocSites"
      [] tag = TAG_HEAP_SUMMARY -> "HeapSummary"
      [] tag = TAG_START_THREAD -> "StartThread"
      [] tag = TAG_END_THREAD -> "EndThread"

\* An unknown record whose payload is skipped before it is reported.
unknown_packet_skips(c, tag, payload_size) ==
    Fail(read_exact(c, payload_size), "UnknownPacket", <<tag, payload_size>>)

\* The arm `_ => Some(Err(Error::UnknownPacket(tag, payload_size)))`.
unknown_packet(c, tag, payload_size) == Fail(c, "UnknownPacket", <<tag, payload_size>>)

\* The arms of `match tag` in read_record that decode a record.
read_top(c, tag, payload_size) ==
    CASE tag = TAG_STRING -> read_01_string(c, payload_size)
      [] tag = TAG_LOAD_CLASS -> read_02_load_class(c)
      [] tag = TAG_UNLOAD_CLASS -> read_03_unload_class(c)
      [] tag = TAG_STACK_FRAME -> read_04_frame(c)
      [] tag = TAG_STACK_TRACE -> read_05_trace(c)
      [] tag = TAG_ALLOC_SITES -> read_06_alloc_sites(c)
      [] tag = TAG_HEAP_SUMMARY -> read_07_heap_summary(c)
      [] tag = TAG_START_THREAD -> read_0a_start_thread(c)
      [] tag = TAG_END_THREAD -> read_0b_end_thread(c)
      [] OTHER -> unknown_packet(c, tag, payload_size)

SubTags ==
    {TAG_GC_ROOT_UNKNOWN, TAG_GC_ROOT_JNI_GLOBAL, TAG_GC_ROOT_JNI_LOCAL,
     TAG_GC_ROOT_JAVA_FRAME, TAG_GC_ROOT_NATIVE_STACK, TAG_GC_ROOT_STICKY_CLASS,
     TAG_GC_ROOT_THREAD_BLOCK, TAG_GC_ROOT_MONITOR_USED, TAG_GC_ROOT_THREAD_OBJ,
     TAG_GC_CLASS_DUMP, TAG_GC_INSTANCE_DUMP, TAG_GC_OBJ_ARRAY_DUMP,
     TAG_GC_PRIM_ARRAY_DUMP}

\* Option: Some(data) and None.
Some(data) == <<"Some", data>>
None == <<"None">>

\* A record that holds the data whatever the flag says.
Maybe_always(flag, c) ==
    IF Failed(c) THEN c ELSE [c EXCEPT !.vals[Len(c.vals)] = Some(@)]

\* `if self.hprof.load_..._arrays { Some(data) } else { None }`
Maybe(flag, c) ==
    IF Failed(c) THEN c
    ELSE [c EXCEPT !.vals[Len(c.vals)] = IF flag THEN Some(@) ELSE None]

\* An unknown subrecord reported with the error of an unknown record.
unknown_subpacket_as_packet(c, tag) == Fail(c, "UnknownPacket", <<tag, 0>>)

\* The arm `_ => { self.state = Some(Eof); return Err(UnknownSubpacket(tag)) }`.
unknown_subpacket(c, tag) == Fail(c, "UnknownSubpacket", <<tag>>)

\* The arms of `match tag` in read_data_record.
read_sub(c, tag, class_info) ==
    CASE tag \in {TAG_GC_ROOT_UNKNOWN, TAG_GC_ROOT_STICKY_CLASS, TAG_GC_ROOT_MONITOR_USED}
           -> read_fields(c, <<"id">>)
      [] tag = TAG_GC_ROOT_JNI_GLOBAL -> read_fields(c, <<"id", "id">>)
      [] tag \in {TAG_GC_ROOT_JNI_LOCAL, TAG_GC_ROOT_JAVA_FRAME, TAG_GC_ROOT_THREAD_OBJ}
           -> read_fields(c, <<"id", "u32", "u32">>)
      [] tag \in {TAG_GC_ROOT_NATIVE_STACK, TAG_GC_ROOT_THREAD_BLOCK}
           -> read_fields(c, <<"id", "u32">>)
      [] tag = TAG_GC_CLASS_DUMP -> read_class_description(c)
      [] tag = TAG_GC_INSTANCE_DUMP -> read_object(c, class_info)
      [] tag = TAG_GC_OBJ_ARRAY_DUMP -> Maybe(hprof.load_object_arrays, read_object_array(c))
      [] tag = TAG_GC_PRIM_ARRAY_DUMP
           -> Maybe(hprof.load_primitive_arrays, read_primitive_array(c))
      [] OTHER -> unknown_subpacket(c, tag)

\* A timestamp that forgets the delta of the header.
TsAdd_base(timestamp, timestamp_delta) == timestamp

\* The big-endian bytes bs plus n: the carry out of the top byte, then the
\* bytes of the sum.
RECURSIVE AddBytes(_, _)
AddBytes(bs, n) ==
    IF bs = <<>> THEN <<n>>
    ELSE AddBytes(SubSeq(bs, 1, Len(bs) - 1), (bs[Len(bs)] + n) \div 256)
         \o <<(bs[Len(bs)] + n) % 256>>

\* `self.hprof.timestamp + timestamp_delta` on u64 (8 bytes, big-endian): the
\* sum modulo 2^64, and whether it overflows.  With overflow checks the
\* overflowing addition panics; without them it wraps.
TsAdd(timestamp, timestamp_delta) == Tail(AddBytes(timestamp, timestamp_delta))

TsOverflows(timestamp, timestamp_delta) == Head(AddBytes(timestamp, timestamp_delta)) # 0

\* A closure that bounds the sub-stream to payload_size again after each
\* subrecord.
AfterSub_retake(c, seg) ==
    IF c.err = "UnknownSubpacket" THEN Eof
    ELSE IF Failed(c) THEN Empty
    ELSE InData(seg.ts, seg.size, seg.start, seg.size)

\* The state the closure of read_data_record leaves: Eof where it sets it,
\* the taken (empty) state where ? returns early, InData after a record.
AfterSub(c, seg) ==
    IF c.err = "UnknownSubpacket" THEN Eof
    ELSE IF Failed(c) THEN Empty
    ELSE InData(seg.ts, c.lims[1], seg.start, seg.size)

\* The state read_record leaves after a record's arm.
AfterTop(c) == IF c.err \in {"panic", "hang"} THEN Empty ELSE InNormal

RECURSIVE read_record(_, _, _), read_data_record(_, _, _, _)

\* read_record, the decoded record b: `self.state = InNormal; Some(Ok(..))`,
\* or the Err of `?`.
read_record_item(tag, timestamp, b, class_info, left) ==
    Done(b, AfterTop(b), class_info,
         IF Failed(b) THEN RetErr(b) ELSE RetItem(RecordName(tag), 0, timestamp, b.vals),
         left)

\* A HEAP_DUMP_END that is yielded as a record of its own.
heap_dump_end_item(h, class_info, left) ==
    Done(h, InNormal, class_info, RetItem("HeapDumpEnd", 0, NoTs, <<>>), left)

\* A HEAP_DUMP_END whose payload is skipped before the next record is read.
heap_dump_end_skips(h, class_info, left) ==
    read_record(Fresh(Advance(h, Min(h.vals[2], Room(h)))), class_info, left)

\* The arm TAG_HEAP_DUMP_END: `self.state = Some(InNormal(stream));
\* return self.read_record()`.
heap_dump_end(h, class_info, left) == read_record(Fresh(h), class_info, left)

\* read_record after the header h (timestamp_delta, payload_size).
read_record_body(tag, h, class_info, left) ==
    IF Failed(h) THEN Done(h, Eof, class_info, RetErr(h), left)
    ELSE IF hprof.overflow_checks /\ TsOverflows(hprof.timestamp, h.vals[1])
    THEN Done(h, Empty, class_info, RetErr(Fail(h, "panic", <<>>)), left)
    ELSE IF tag \in {TAG_HEAP_DUMP, TAG_HEAP_DUMP_SEGMENT}
    THEN read_data_record(take(Fresh(h), h.vals[2]), class_info,
                          InData(TsAdd(hprof.timestamp, h.vals[1]), h.vals[2],
                                 h.pos, h.vals[2]),
                          left)
    ELSE IF tag = TAG_HEAP_DUMP_END THEN heap_dump_end(h, class_info, left)
    ELSE read_record_item(tag, TsAdd(hprof.timestamp, h.vals[1]),
                          read_top(Fresh(h), tag, h.vals[2]), class_info, left)

\* A lookahead that puts the stream back at the end of the input instead of
\* setting Eof.
read_record_header_keeps(t, class_info, left) ==
    IF t.none THEN Done(t.c, InNormal, class_info, RetNone, left)
    ELSE IF Failed(t.c) THEN Done(t.c, Eof, class_info, RetErr(t.c), left)
    ELSE read_record_body(BE(t.c.got), read_u32(read_u32(Fresh(t.c))), class_info, left)

\* read_record after the tag lookahead t.
read_record_header(t, class_info, left) ==
    IF t.none THEN Done(t.c, Eof, class_info, RetNone, left)
    ELSE IF Failed(t.c) THEN Done(t.c, Eof, class_info, RetErr(t.c), left)
    ELSE read_record_body(BE(t.c.got), read_u32(read_u32(Fresh(t.c))), class_info, left)

read_record(c, class_info, left) == read_record_header(try_read_u8(c), class_info, left)

\* A closure that enters a ClassDump into the table as soon as its class id
\* is read, with the tables read so far.
read_data_record_item_early(tag, b, class_info, seg, left) ==
    Done(b, AfterSub(b, seg),
         IF tag = TAG_GC_CLASS_DUMP /\ b.vals # <<>>
         THEN insert(class_info, b.vals[1],
                     IF Failed(b)
                     THEN [class_id |-> b.vals[1], stack_trace_serial |-> 0,
                           super_class_object_id |-> IdZero, instance_size |-> 0,
                           const_fields |-> <<>>, static_fields |-> <<>>,
                           instance_fields |-> <<>>]
                     ELSE ClassDescription(b.vals))
         ELSE class_info,
         IF Failed(b) THEN RetErr(b) ELSE RetItem("Dump", tag, seg.ts, b.vals),
         left)

\* The closure of read_data_record after the subrecord b of the arm `tag`.
read_data_record_item(tag, b, class_info, seg, left) ==
    Done(b, AfterSub(b, seg),
         IF ~Failed(b) /\ tag = TAG_GC_CLASS_DUMP
         THEN insert(class_info, b.vals[1], ClassDescription(b.vals))
         ELSE class_info,
         IF Failed(b) THEN RetErr(b) ELSE RetItem("Dump", tag, seg.ts, b.vals),
         left)

\* A subtag lookahead that takes the end of the segment for the end of the
\* input.
read_data_record_tag_stops(t, class_info, seg, left) ==
    IF t.none THEN Done(t.c, Eof, class_info, RetNone, left)
    ELSE IF Failed(t.c) THEN Done(t.c, Eof, class_info, RetErr(t.c), left)
    ELSE read_data_record_item(BE(t.c.got), read_sub(Fresh(t.c), BE(t.c.got), class_info),
                               class_info, seg, left)

\* A subtag lookahead that takes the end of the segment for an empty
\* subrecord and stays in the segment.
read_data_record_tag_stays(t, class_info, seg, left) ==
    IF t.none
    THEN Done(t.c, InData(seg.ts, t.c.lims[1], seg.start, seg.size), class_info,
              RetItem("Dump", 0, seg.ts, <<>>), left)
    ELSE IF Failed(t.c) THEN Done(t.c, Eof, class_info, RetErr(t.c), left)
    ELSE read_data_record_item(BE(t.c.got), read_sub(Fresh(t.c), BE(t.c.got), class_info),
                               class_info, seg, left)

\* read_data_record after the subtag lookahead t.
read_data_record_tag(t, class_info, seg, left) ==
    IF t.none
    THEN read_record(into_inner(t.c), class_info,
                     Append(left, [start |-> seg.start, size |-> seg.size,
                                   at |-> t.c.pos]))
    ELSE IF Failed(t.c) THEN Done(t.c, Eof, class_info, RetErr(t.c), left)
    ELSE read_data_record_item(BE(t.c.got), read_sub(Fresh(t.c), BE(t.c.got), class_info),
                               class_info, seg, left)

read_data_record(c, class_info, seg, left) ==
    read_data_record_tag(try_read_u8(c), class_info, seg, left)

\* A next without the closure.
OnReturn_keeps(r) == r

\* A closure that ends the iteration on I/O errors only.
OnReturn_io(r) ==
    IF r.ret.kind = "err" /\ r.ret.rec = "Io" THEN [r EXCEPT !.state = Eof] ELSE r

\* The closure `.map(|ret| ...)` of next: an Err sets the state to Eof.
OnReturn(r) ==
    IF r.ret.kind = "err" THEN [r EXCEPT !.state = Eof] ELSE r

\* StreamHprofIterator::next, one arm of `match state` each.
next_Eof == Done(Cursor(stream.pos, <<>>), Eof, hprof.class_info, RetNone, <<>>)

next_InNormal ==
    OnReturn(read_record(Cursor(stream.pos, <<>>), hprof.class_info, <<>>))

next_InData ==
    OnReturn(read_data_record(Cursor(stream.pos, <<state.limit>>), hprof.class_info,
                              state, <<>>))

(***************************************************************************)
(* StreamHprofReader::read_hprof: the header of a source.                  *)
(***************************************************************************)
\* No iterator borrows the reader: before read_hprof, or after it failed.
NoIterator == [tag |-> "NoIterator", ts |-> NoTs, limit |-> 0, start |-> 0, size |-> 0]

\* core::str::from_utf8: whether the bytes are well-formed UTF-8.
Continuation(b) == b \in 128..191

SecondByte(lead, b) ==
    CASE lead = 224 -> b \in 160..191
      [] lead = 237 -> b \in 128..159
      [] lead = 240 -> b \in 144..191
      [] lead = 244 -> b \in 128..143
      [] OTHER -> Continuation(b)

RECURSIVE from_utf8(_)
from_utf8(bs) ==
    IF bs = <<>> THEN TRUE
    ELSE IF bs[1] < 128 THEN from_utf8(Tail(bs))
    ELSE IF bs[1] \in 194..223
    THEN Len(bs) >= 2 /\ Continuation(bs[2]) /\ from_utf8(SubSeq(bs, 3, Len(bs)))
    ELSE IF bs[1] \in 224..239
    THEN /\ Len(bs) >= 3 /\ SecondByte(bs[1], bs[2]) /\ Continuation(bs[3])
         /\ from_utf8(SubSeq(bs, 4, Len(bs)))
    ELSE IF bs[1] \in 240..244
    THEN /\ Len(bs) >= 4 /\ SecondByte(bs[1], bs[2]) /\ Continuation(bs[3])
         /\ Continuation(bs[4]) /\ from_utf8(SubSeq(bs, 5, Len(bs)))
    ELSE FALSE

\* Where the first 0x00 after the cursor is (past the end: there is none).
RECURSIVE FirstZero(_)
FirstZero(p) ==
    IF p > Len(stream.data) \/ stream.data[p] = 0 THEN p ELSE FirstZero(p + 1)

\* `stream.split(0x00).next().unwrap()?`: the bytes before the first 0x00,
\* which is consumed; at the end of the source what is left of it, the panic
\* of unwrap when nothing is, or the I/O error.
split_at(c, z) ==
    IF z <= Len(stream.data) THEN Push(Advance(c, z - c.pos), SubSeq(stream.data, c.pos + 1, z - 1))
    ELSE IF stream.end = "ioerr" THEN Fail(Advance(c, Len(stream.data) - c.pos), "Io", <<>>)
    ELSE IF c.pos = Len(stream.data) THEN Fail(c, "panic", <<>>)
    ELSE Push(Advance(c, Len(stream.data) - c.pos),
              SubSeq(stream.data, c.pos + 1, Len(stream.data)))

split_next(c) == split_at(c, FirstZero(c.pos + 1))

\* `from_utf8(..).or(Err(Error::InvalidHeader(..)))?`
read_banner(b) ==
    IF Failed(b) \/ from_utf8(Top(b)) THEN b ELSE Fail(b, "InvalidHeader", <<>>)

\* `stream.read_u32::<NetworkEndian>()? as u64`: the four bytes of a half of
\* the timestamp.
PushHalf(d) == IF Failed(d) THEN d ELSE Push(d, d.got)
read_u32_as_u64(c) == PushHalf(read_exact(c, 4))

\* read_hprof: banner, id_size, hi, lo.
read_hprof(c) ==
    read_u32_as_u64(read_u32_as_u64(read_u32(read_banner(split_next(c)))))

\* A header whose timestamp halves are taken in the other order.
AfterHeader_lo_hi(r) ==
    [hprof EXCEPT !.banner = IF Len(r.vals) >= 1 THEN r.vals[1] ELSE @,
                  !.id_size = IF Len(r.vals) >= 2 THEN r.vals[2] ELSE @,
                  !.timestamp = IF Len(r.vals) = 4 THEN r.vals[4] \o r.vals[3] ELSE @]

\* The fields of the reader read_hprof has assigned when it returns:
\* each one is assigned as soon as it is read; class_info is not touched.
AfterHeader(r) ==
    [hprof EXCEPT !.banner = IF Len(r.vals) >= 1 THEN r.vals[1] ELSE @,
                  !.id_size = IF Len(r.vals) >= 2 THEN r.vals[2] ELSE @,
                  !.timestamp = IF Len(r.vals) = 4 THEN r.vals[3] \o r.vals[4] ELSE @]

(***************************************************************************)
(* The sources of the model: byte sequences built from records of the      *)
(* format, cut at every length, ending with end of file or an I/O error.   *)
(***************************************************************************)
MaxDelta == 1       \* largest timestamp delta of a segment header
MaxSlack == 1       \* how far a segment's payload_size departs from its content
MaxElems == 2       \* elements of an array subrecord

U16B(n) == <<n \div 256, n % 256>>
U32B(n) == <<0, 0>> \o U16B(n)
IdB(idsz, n) == IF idsz = 8 THEN Zero4 \o U32B(n) ELSE IF idsz = 4 THEN U32B(n) ELSE U16B(n)

FieldBytes(idsz, f, v) ==
    CASE f = "u8" -> <<v>>
      [] f = "u16" -> U16B(v)
      [] f \in {"u32", "i32"} -> U32B(v)
      [] f = "u64" -> Zero4 \o U32B(v)
      [] f = "id" -> IdB(idsz, v)

RECURSIVE LayoutBytes(_, _, _)
LayoutBytes(idsz, layout, v) ==
    IF layout = <<>> THEN <<>>
    ELSE FieldBytes(idsz, Head(layout), v) \o LayoutBytes(idsz, Tail(layout), v + 1)

RECURSIVE Concat(_)
Concat(ss) == IF ss = <<>> THEN <<>> ELSE Head(ss) \o Concat(Tail(ss))

Header(tag, delta, size) == <<tag>> \o U32B(delta) \o U32B(size)
Record(tag, delta, body) == Header(tag, delta, Len(body)) \o body

\* The body of a well-formed top-level record.
TopBody(idsz, tag) ==
    CASE tag = TAG_STRING -> IdB(idsz, 66) \o <<104, 105>>
      [] tag = TAG_LOAD_CLASS -> LayoutBytes(idsz, <<"u32", "id", "u32", "id">>, 1)
      [] tag = TAG_UNLOAD_CLASS -> U32B(1)
      [] tag = TAG_STACK_FRAME ->
           LayoutBytes(idsz, <<"id", "id", "id", "id", "u32", "i32">>, 1)
      [] tag = TAG_STACK_TRACE -> U32B(1) \o U32B(2) \o U32B(1) \o IdB(idsz, 3)
      [] tag = TAG_ALLOC_SITES ->
           LayoutBytes(idsz, <<"u16", "u32", "u32", "u32", "u64", "u64">>, 1) \o U32B(1)
           \o LayoutBytes(idsz, <<"u8", "u32", "u32", "u32", "u32", "u32", "u32">>, 1)
      [] tag = TAG_HEAP_SUMMARY -> LayoutBytes(idsz, <<"u32", "u32", "u64", "u64">>, 1)
      [] tag = TAG_START_THREAD ->
           LayoutBytes(idsz, <<"u32", "id", "u32", "id", "id", "id">>, 1)
      [] tag = TAG_END_THREAD -> U32B(1)

\* Subrecords.
RootLayout(tag) ==
    CASE tag \in {TAG_GC_ROOT_UNKNOWN, TAG_GC_ROOT_STICKY_CLASS, TAG_GC_ROOT_MONITOR_USED}
           -> <<"id">>
      [] tag = TAG_GC_ROOT_JNI_GLOBAL -> <<"id", "id">>
      [] tag \in {TAG_GC_ROOT_JNI_LOCAL, TAG_GC_ROOT_JAVA_FRAME, TAG_GC_ROOT_THREAD_OBJ}
           -> <<"id", "u32", "u32">>
      [] tag \in {TAG_GC_ROOT_NATIVE_STACK, TAG_GC_ROOT_THREAD_BLOCK} -> <<"id", "u32">>

RootTags == SubTags \ {TAG_GC_CLASS_DUMP, TAG_GC_INSTANCE_DUMP, TAG_GC_OBJ_ARRAY_DUMP,
                       TAG_GC_PRIM_ARRAY_DUMP}

RootSub(idsz, tag) == <<tag>> \o LayoutBytes(idsz, RootLayout(tag), 11)

\* A ClassDump: consts, statics and fields are sequences of entry bytes.
ClassDumpSub(idsz, class, super, consts, statics, fields) ==
    <<TAG_GC_CLASS_DUMP>> \o IdB(idsz, class) \o U32B(1) \o IdB(idsz, super)
    \o LayoutBytes(idsz, <<"id", "id", "id", "id", "id">>, 0) \o U32B(4)
    \o U16B(Len(consts)) \o Concat(consts)
    \o U16B(Len(statics)) \o Concat(statics)
    \o U16B(Len(fields)) \o Concat(fields)

ClassDumps(idsz) ==
    {ClassDumpSub(idsz, 7, 0, <<>>, <<>>, <<IdB(idsz, 100) \o <<FT_Int>>>>),
     ClassDumpSub(idsz, 8, 7, <<U16B(1) \o <<FT_Byte, 5>>>>,
                  <<IdB(idsz, 3) \o <<FT_Object>> \o IdB(idsz, 9)>>, <<>>)}

InstanceDumpSub(idsz, object, class, data) ==
    <<TAG_GC_INSTANCE_DUMP>> \o IdB(idsz, object) \o U32B(1) \o IdB(idsz, class)
    \o U32B(Len(data)) \o data

InstanceDumps(idsz) ==
    {InstanceDumpSub(idsz, 9, 7, U32B(5)),
     InstanceDumpSub(idsz, 9, 8, U32B(5)),
     InstanceDumpSub(idsz, 9, 42, <<>>)}

RECURSIVE Repeat(_, _)
Repeat(bs, n) == IF n = 0 THEN <<>> ELSE bs \o Repeat(bs, n - 1)

ObjectArraySub(idsz, n) ==
    <<TAG_GC_OBJ_ARRAY_DUMP>> \o IdB(idsz, 9) \o U32B(1) \o U32B(n) \o IdB(idsz, 7)
    \o Repeat(IdB(idsz, 9), n)

PrimitiveArraySub(idsz, ty, n) ==
    <<TAG_GC_PRIM_ARRAY_DUMP>> \o IdB(idsz, 9) \o U32B(1) \o U32B(n) \o <<ty>>
    \o Repeat(<<1>>, n * byte_size(ty))

Subs(idsz) ==
    {RootSub(idsz, t) : t \in RootTags} \cup ClassDumps(idsz) \cup InstanceDumps(idsz)
    \cup {ObjectArraySub(idsz, MaxElems)}
    \cup {PrimitiveArraySub(idsz, ty, MaxElems) : ty \in {FT_Object, FT_Short}}

\* The content of a segment: nothing, one subrecord, a root and a subrecord,
\* or a ClassDump and an InstanceDump.
Bodies(idsz) ==
    {<<>>} \cup Subs(idsz)
    \cup {RootSub(idsz, TAG_GC_ROOT_UNKNOWN) \o b : b \in Subs(idsz)}
    \cup {a \o b : a \in ClassDumps(idsz), b \in InstanceDumps(idsz)}

\* Class 7 with the Int field 100, class 7 described again with the Byte
\* field 101, and class 8 below class 7 with the Byte field 102.
Class7(idsz) == ClassDumpSub(idsz, 7, 0, <<>>, <<>>, <<IdB(idsz, 100) \o <<FT_Int>>>>)
Class7Again(idsz) == ClassDumpSub(idsz, 7, 0, <<>>, <<>>, <<IdB(idsz, 101) \o <<FT_Byte>>>>)
Class8(idsz) == ClassDumpSub(idsz, 8, 7, <<>>, <<>>, <<IdB(idsz, 102) \o <<FT_Byte>>>>)

\* Segments whose class table holds a cycle of super-class links: class 5 is
\* its own super-class and declares no field, classes 5 and 6 are each
\* other's super-class and declare no field, class 6 is its own super-class
\* and declares a Byte field.
CycleBodies(idsz) ==
    {ClassDumpSub(idsz, 5, 5, <<>>, <<>>, <<>>) \o InstanceDumpSub(idsz, 9, 5, <<1>>),
     ClassDumpSub(idsz, 5, 6, <<>>, <<>>, <<>>) \o ClassDumpSub(idsz, 6, 5, <<>>, <<>>, <<>>)
        \o InstanceDumpSub(idsz, 9, 6, <<>>),
     ClassDumpSub(idsz, 6, 6, <<>>, <<>>, <<IdB(idsz, 103) \o <<FT_Byte>>>>)
        \o InstanceDumpSub(idsz, 9, 6, <<1, 2>>)}

\* Segments about class chains: an instance of class 8 with both classes
\* described or only its own, an instance of the class described twice, and
\* an instance with one byte more data than its fields take.
ChainBodies(idsz) ==
    {Class7(idsz) \o Class8(idsz) \o InstanceDumpSub(idsz, 9, 8, <<1>> \o U32B(5)),
     Class8(idsz) \o InstanceDumpSub(idsz, 9, 8, <<1>> \o U32B(5)),
     Class7(idsz) \o Class7Again(idsz) \o InstanceDumpSub(idsz, 9, 7, <<1>>),
     Class7(idsz) \o InstanceDumpSub(idsz, 9, 7, U32B(5) \o <<0>>)
        \o RootSub(idsz, TAG_GC_ROOT_UNKNOWN)}
    \cup CycleBodies(idsz)

\* An array and the subrecord after it.
ArrayBodies(idsz) ==
    {a \o RootSub(idsz, TAG_GC_ROOT_UNKNOWN) :
        a \in {ObjectArraySub(idsz, MaxElems)}
              \cup {PrimitiveArraySub(idsz, ty, MaxElems) : ty \in {FT_Object, FT_Short}}}

\* The segment around body b with the given header; payload_size is the
\* length of b, or off by a slack.
SegmentsOf(tag, delta, b) ==
    {Header(tag, delta, Len(b) + k) \o b :
        k \in {j \in -MaxSlack..MaxSlack : Len(b) + j >= 0}}

\* A HeapDump followed by a record, or a HeapDumpSegment followed by
\* HeapDumpEnd.
Dumps(idsz) ==
    UNION {{s \o Record(TAG_END_THREAD, 1, U32B(1)) :
               s \in SegmentsOf(TAG_HEAP_DUMP, 0, b)}
           \cup {s \o Header(TAG_HEAP_DUMP_END, 0, 0) :
                    s \in SegmentsOf(TAG_HEAP_DUMP_SEGMENT, MaxDelta, b)} :
           b \in Bodies(idsz) \cup ChainBodies(idsz) \cup ArrayBodies(idsz)}

\* What follows the first record of a source.
\* Subtags next to the known ones.
OddSubTags == {0, 9, 36}

Followers == {Record(TAG_END_THREAD, 1, U32B(1)), Header(TAG_HEAP_DUMP_END, 0, 0)}

\* A record of every tag value, and a segment holding a subrecord of every
\* subtag value.
AnyTag(idsz) ==
    {Header(t, 1, 3) \o IdB(idsz, 1) : t \in 0..255}
    \cup {Header(TAG_HEAP_DUMP, 1, idsz + 1) \o <<t>> \o IdB(idsz, 1) : t \in 0..255}
    \cup {Header(TAG_HEAP_DUMP, 1, 2 * idsz + 2)
            \o RootSub(idsz, TAG_GC_ROOT_UNKNOWN) \o <<t>> \o IdB(idsz, 1) :
          t \in OddSubTags}

\* Bytes that are no field kind, and segments that hold one: in a constant
\* of a ClassDump, in a static field, in an instance field, or as the
\* element kind of a primitive array.
BadKinds == {3, 12}

BadKindBodies(idsz) ==
    UNION {{ClassDumpSub(idsz, 7, 0, <<U16B(1) \o <<k, 5>>>>, <<>>, <<>>),
            ClassDumpSub(idsz, 7, 0, <<U16B(1) \o <<FT_Byte, 5>>>>,
                         <<IdB(idsz, 3) \o <<k>> \o IdB(idsz, 9)>>, <<>>),
            ClassDumpSub(idsz, 7, 0, <<>>, <<IdB(idsz, 3) \o <<FT_Short, 0, 9>>>>,
                         <<IdB(idsz, 100) \o <<FT_Int>>, IdB(idsz, 101) \o <<k>>>>),
            <<TAG_GC_PRIM_ARRAY_DUMP>> \o IdB(idsz, 9) \o U32B(1) \o U32B(1) \o <<k, 1, 1>>} :
           k \in BadKinds}

\* String records: bytes that are not UTF-8, and an empty string.
Strings(idsz) ==
    {Record(TAG_STRING, 1, IdB(idsz, 66) \o <<255, 0, 104>>),
     Record(TAG_STRING, 1, IdB(idsz, 66))}

\* An EndThread record whose payload_size is two more than its layout takes,
\* with the two bytes, and the record after it.
LongEndThread ==
    Header(TAG_END_THREAD, 1, 6) \o U32B(1) \o <<0, 0>>
    \o Record(TAG_UNLOAD_CLASS, 1, U32B(1))

Whole(idsz) ==
    {a \o Record(TAG_END_THREAD, 1, U32B(1)) : a \in Strings(idsz)}
    \cup {LongEndThread}
    \cup
    {Record(TAG_HEAP_DUMP, 1, b) \o Header(TAG_HEAP_DUMP_END, 0, 0) :
        b \in BadKindBodies(idsz)}
    \cup
    {a \o b :
        a \in {Record(t, 1, TopBody(idsz, t)) : t \in TopTags}
              \cup {Header(TAG_HEAP_DUMP_END, 0, 0)},
        b \in Followers}
    \cup Dumps(idsz)
    \cup {a \o Header(TAG_HEAP_DUMP_END, 0, 0) : a \in AnyTag(idsz)}

Sources(idsz) == UNION {{SubSeq(w, 1, n) : n \in 0..Len(w)} : w \in Whole(idsz)}

\* The sources read with a load flag off: the segments with an array.
ArraySources(idsz) ==
    UNION {{SubSeq(w, 1, n) : n \in 0..Len(w)} :
           w \in UNION {SegmentsOf(TAG_HEAP_DUMP, MaxDelta, b) : b \in ArrayBodies(idsz)}}

IdSizes == {4, 8}

Init ==
    /\ \E idsz \in IdSizes, end \in {"eof", "ioerr"}, prim \in BOOLEAN, obj \in BOOLEAN :
         /\ \E data \in (IF prim /\ obj THEN Sources(idsz) ELSE ArraySources(idsz)) :
              stream = [data |-> data, end |-> end, pos |-> 0]
         /\ hprof = [id_size |-> idsz, order |-> "Network", timestamp |-> Zero4 \o U32B(5),
                     load_primitive_arrays |-> prim, load_object_arrays |-> obj,
                     overflow_checks |-> FALSE,
                     class_info |-> [k \in {} |-> 0]]
    /\ state = InNormal
    /\ last = [ret |-> RetInit, from |-> InNormal, pos0 |-> 0, prev |-> RetInit,
               left |-> <<>>]

\* One call of next from a state with the given tag.
Returned(r) ==
    /\ stream' = [stream EXCEPT !.pos = r.pos]
    /\ hprof' = [hprof EXCEPT !.class_info = r.class_info]
    /\ state' = r.state
    /\ last' = [ret |-> r.ret, from |-> state, pos0 |-> stream.pos,
                prev |-> last.ret, left |-> r.left]

PollInNormal == state.tag = "InNormal" /\ \E r \in {next_InNormal} : Returned(r)

PollInData == state.tag = "InData" /\ \E r \in {next_InData} : Returned(r)

PollEof == state.tag = "Eof" /\ \E r \in {next_Eof} : Returned(r)

Next == PollInNormal \/ PollInData \/ PollEof

Spec == Init /\ [][Next]_vars

(***************************************************************************)
(* Well-formed files, read to the end by a caller that goes on calling     *)
(* next.                                                                   *)
(***************************************************************************)
\* The contents of a well-formed segment: a root, an instance of a described
\* class below a described class, an instance of a class described twice,
\* or an array and a root.
GoodBodies(idsz) ==
    {RootSub(idsz, t) : t \in RootTags}
    \cup {Class7(idsz) \o Class8(idsz) \o InstanceDumpSub(idsz, 9, 8, <<1>> \o U32B(5)),
          Class7(idsz) \o Class7Again(idsz) \o InstanceDumpSub(idsz, 9, 7, <<1>>),
          ObjectArraySub(idsz, MaxElems) \o RootSub(idsz, TAG_GC_ROOT_UNKNOWN),
          PrimitiveArraySub(idsz, FT_Short, MaxElems) \o RootSub(idsz, TAG_GC_ROOT_UNKNOWN)}

\* A record, a segment whose payload_size is the length of its content, and
\* a HeapDumpEnd.
WellFormed(idsz) ==
    {Record(t, d, TopBody(idsz, t)) \o Record(TAG_HEAP_DUMP_SEGMENT, d, b)
       \o Header(TAG_HEAP_DUMP_END, 0, 0) :
     t \in TopTags, d \in 0..MaxDelta, b \in GoodBodies(idsz)}

InitLive ==
    /\ \E idsz \in IdSizes :
         /\ \E data \in WellFormed(idsz) :
              stream = [data |-> data, end |-> "eof", pos |-> 0]
         /\ hprof = [id_size |-> idsz, order |-> "Network", timestamp |-> Zero4 \o U32B(5),
                     load_primitive_arrays |-> TRUE, load_object_arrays |-> TRUE,
                     overflow_checks |-> FALSE,
                     class_info |-> [k \in {} |-> 0]]
    /\ state = InNormal
    /\ last = [ret |-> RetInit, from |-> InNormal, pos0 |-> 0, prev |-> RetInit,
               left |-> <<>>]

\* The iterator can yield more: it is at top level or in a segment.  What a
\* call from there changes when it gets on: the position or the state.
Pollable == state.tag \in {"InNormal", "InData"}
Progress == <<stream.pos, state.tag>>

\* The caller goes on calling next while the iterator can yield more: weak
\* fairness WF_Progress(Pollable) of the calls, written out with
\* ENABLED <<Pollable>>_Progress as the state predicate Pollable it equals.
CallerGoesOn == []<>~Pollable \/ []<><<Pollable>>_Progress

SpecLive == InitLive /\ [][Next]_vars /\ CallerGoesOn

(***************************************************************************)
(* A reader used for several sources, one after the other: each source     *)
(* starts with a header, and read_hprof is called on the same reader.      *)
(***************************************************************************)
MaxStreams == 2     \* sources one reader is used for

\* Header timestamps at both ends of u64.
Ones4 == <<255, 255, 255, 255>>
TsBases == {Zero4 \o Zero4, Zero4 \o U32B(5), Ones4 \o <<255, 255, 255, 254>>,
            Ones4 \o Ones4}

HeaderBytes(banner, idsz, ts) == banner \o <<0>> \o U32B(idsz) \o ts

Banner == <<74, 65, 86, 65>>

\* A String record whose payload_size, 2, is smaller than every id_size: two
\* bytes of body, and the record after it.
ShortString(delta) ==
    Header(TAG_STRING, delta, 2) \o <<0, 66>> \o Record(TAG_END_THREAD, delta, U32B(1))

\* A record and a HeapDump that describes class 7, or a HeapDumpSegment
\* with an instance of class 7 and a record, or the short String record.
SessionRecords(idsz, delta) ==
    {Record(TAG_END_THREAD, delta, U32B(1))
       \o Record(TAG_HEAP_DUMP, delta,
                 ClassDumpSub(idsz, 7, 0, <<>>, <<>>, <<IdB(idsz, 100) \o <<FT_Int>>>>)),
     Record(TAG_HEAP_DUMP_SEGMENT, delta, InstanceDumpSub(idsz, 9, 7, U32B(5)))
       \o Record(TAG_UNLOAD_CLASS, delta, U32B(1)),
     ShortString(delta)}

SessionSources(idsz, bases) ==
    {HeaderBytes(Banner, idsz, ts) \o w :
        ts \in bases, w \in UNION {SessionRecords(idsz, d) : d \in 0..MaxDelta}}

\* Headers that are cut short or whose banner is not UTF-8.
BadHeaders(idsz) ==
    {SubSeq(HeaderBytes(Banner, idsz, Zero4 \o U32B(5)), 1, n) : n \in 0..16}
    \cup {HeaderBytes(<<74, 255>>, idsz, Zero4 \o U32B(5))}

\* A file that holds only a header, and a header whose id_size is 2 before
\* a record without identifiers and one with identifiers.
OddIdSize == 2

HeaderOnly(idsz) == {HeaderBytes(Banner, idsz, Zero4 \o U32B(5))}

OddHeaders ==
    {HeaderBytes(Banner, OddIdSize, Zero4 \o U32B(5))
       \o Record(TAG_END_THREAD, 0, U32B(1))
       \o Record(TAG_LOAD_CLASS, 0, TopBody(OddIdSize, TAG_LOAD_CLASS))}

\* StreamHprofReader::new() and the first source.
InitSession ==
    /\ \E idsz \in IdSizes, end \in {"eof", "ioerr"} :
         \E data \in SessionSources(idsz, TsBases) \cup BadHeaders(idsz)
                     \cup HeaderOnly(idsz) \cup OddHeaders :
            stream = [data |-> data, end |-> end, pos |-> 0, no |-> 1]
    /\ \E checks \in BOOLEAN :
         hprof = [banner |-> <<>>, id_size |-> 0, order |-> "Network",
                  timestamp |-> Zero4 \o Zero4,
                  load_primitive_arrays |-> TRUE, load_object_arrays |-> TRUE,
                  overflow_checks |-> checks,
                  class_info |-> [k \in {} |-> 0]]
    /\ state = NoIterator
    /\ last = [ret |-> RetInit, from |-> NoIterator, pos0 |-> 0, prev |-> RetInit,
               left |-> <<>>]

\* reader.read_hprof(&mut stream): an iterator at top level, or the error.
HeaderRead(r) ==
    /\ stream' = [stream EXCEPT !.pos = r.pos]
    /\ hprof' = AfterHeader(r)
    /\ state' = IF Failed(r) THEN NoIterator ELSE InNormal
    /\ last' = [ret |-> IF Failed(r) THEN RetErr(r) ELSE RetInit, from |-> state,
                pos0 |-> stream.pos, prev |-> last.ret, left |-> <<>>]

ReadHprof ==
    /\ state.tag = "NoIterator"
    /\ last.ret.kind = "init"
    /\ \E r \in {read_hprof(Cursor(stream.pos, <<>>))} : HeaderRead(r)

\* The iterator has ended and is dropped; the client takes the next source
\* for the same reader.
Open ==
    /\ state.tag = "Eof"
    /\ stream.no < MaxStreams
    /\ \E data \in SessionSources(hprof.id_size, {Zero4 \o U32B(5)}) :
         stream' = [data |-> data, end |-> stream.end, pos |-> 0, no |-> stream.no + 1]
    /\ state' = NoIterator
    /\ last' = [ret |-> RetInit, from |-> state, pos0 |-> stream.pos, prev |-> last.ret,
                left |-> <<>>]
    /\ UNCHANGED hprof

NextSession == ReadHprof \/ Open \/ PollInNormal \/ PollInData \/ PollEof

SpecSession == InitSession /\ [][NextSession]_vars

(***************************************************************************)
(* The readers on their own (try_byteorder.rs, records.rs): try_read_* and *)
(* IdReader::read_id called on short sources, bare or behind a Take, at    *)
(* every position.                                                         *)
(***************************************************************************)
MaxBytes == 5

\* Sources of at most MaxBytes bytes: a byte below 128 and a byte above it
\* take turns, in each of the three phases.
ByteStrings ==
    {[i \in 1..k |-> IF (i + a) % 3 = 0 THEN 130 ELSE 1] : k \in 0..MaxBytes, a \in 0..2}

\* Sources long enough for an 8-byte identifier, every byte different.
MaxLong == 9
LongStrings == {[i \in 1..k |-> i] : k \in 8..MaxLong}

\* The numbers read with try_read_*; a u32 with the top bit set is beyond
\* the 32-bit integers of TLC, the 4-byte read is there with i32.
Formats == {"u8", "i8", "u16", "i16", "i32"}
Orders == {"BigEndian", "LittleEndian"}
TakeLimits == {0, 3}
\* The buffers handed to try_read_exact itself: the empty one and one of two
\* bytes.
BufLens == {0, 2}

\* A try_read that decodes big-endian whatever the order asked for.
InOrder_big(T, bs) == bs

\* T::read_u16(&buf) and its siblings: the bytes as the order T reads them.
InOrder(T, bs) == IF T = "LittleEndian" THEN Reverse(bs) ELSE bs

\* try_read_u8 ... try_read_i32::<T>: `self.try_read_exact(&mut buf)
\* .map(|r| r.map(|_| T::read_..(&buf)))`.
try_read_value(r, f, T) ==
    IF r.none \/ Failed(r.c) THEN r
    ELSE [r EXCEPT !.c = Push(r.c, Value(f, InOrder(T, r.c.got)))]

try_read(c, f, T) == try_read_value(try_read_exact(c, Size(f)), f, T)

\* What the caller gets: None, Some(Err(e)) or Some(Ok(value)).
TryRet(r, f) ==
    IF r.none THEN RetNone
    ELSE IF Failed(r.c) THEN RetErr(r.c)
    ELSE RetItem(f, 0, NoTs, r.c.vals)

InitTry ==
    /\ \E data \in ByteStrings \cup LongStrings, end \in {"eof", "ioerr"} :
         stream = [data |-> data, end |-> end, pos |-> 0]
    /\ \E idsz \in IdSizes \cup {OddIdSize}, order \in {"Network", "Native"} :
         hprof = [id_size |-> idsz, order |-> order, timestamp |-> Zero4 \o Zero4,
                  load_primitive_arrays |-> TRUE, load_object_arrays |-> TRUE,
                  overflow_checks |-> FALSE,
                  class_info |-> [k \in {} |-> 0]]
    /\ state = InNormal
    /\ last = [ret |-> RetInit, from |-> InNormal, pos0 |-> 0, prev |-> RetInit,
               left |-> <<>>, call |-> [f |-> "", T |-> "", lims |-> <<>>, n |-> 0]]

\* The call returned r: the source is where the call left it.
TryReturned(r, ret, f, T, lims, n) ==
    /\ stream' = [stream EXCEPT !.pos = r.pos]
    /\ last' = [ret |-> ret, from |-> state, pos0 |-> stream.pos, prev |-> RetInit,
                left |-> <<>>, call |-> [f |-> f, T |-> T, lims |-> lims, n |-> n]]
    /\ UNCHANGED <<hprof, state>>

\* stream.try_read_..::<T>(), on the source or on stream.take(limit).
TryRead ==
    \E f \in Formats, T \in Orders, lims \in {<<>>} \cup {<<k>> : k \in TakeLimits} :
        \E r \in {try_read(Cursor(stream.pos, lims), f, T)} :
            TryReturned(r.c, TryRet(r, f), f, T, lims, Size(f))

\* id_reader.read_id(&mut stream), on the source or on stream.take(limit).
ReadId ==
    \E lims \in {<<>>} \cup {<<k>> : k \in TakeLimits} :
        \E c \in {read_id(Cursor(stream.pos, lims))} :
            TryReturned(c, IF Failed(c) THEN RetErr(c) ELSE RetItem("id", 0, NoTs, c.vals),
                        "id", hprof.order, lims, hprof.id_size)

\* stream.try_read_exact(&mut buf) for a buffer of n bytes, on the source or
\* on stream.take(limit).  The source answers a read into an empty buffer
\* with Ok(0), as slices, files and Take do.
TryReadExact ==
    \E n \in BufLens, lims \in {<<>>} \cup {<<k>> : k \in TakeLimits} :
        \E r \in {try_read_exact(Cursor(stream.pos, lims), n)} :
            TryReturned(r.c, TryRet(r, "buf"), "buf", "", lims, n)

NextTry == TryRead \/ ReadId \/ TryReadExact

SpecTry == InitTry /\ [][NextTry]_vars

(***************************************************************************)
(* MemoryHprofRead (reader.rs): a reader over a byte slice.  The slice     *)
(* `buffer` is data[pos+1 .. stop]; `usize` is the pointer width of the    *)
(* target the crate is built for.  Sizes are u64, kept as 8 bytes.         *)
(***************************************************************************)
U64B(n) == Zero4 \o U32B(n)

\* The sizes asked for: up to one more than the longest slice, and the same
\* plus 2^32.
MemSizes ==
    {U64B(n) : n \in 0..(MaxBytes + 1)} \cup {<<0, 0, 0, 1>> \o U32B(n) : n \in 0..MaxBytes}

\* `size as usize`: the low bytes of the u64 that the target's usize holds.
as_usize(size, bits) == SubSeq(size, 9 - bits \div 8, 8)

\* `self.buffer.len() < us`, for a slice shorter than 256 bytes.
LenBelow(len, us) ==
    \/ \E i \in 1..(Len(us) - 1) : us[i] # 0
    \/ us[Len(us)] > len

\* MemoryHprofRead::read_bytes after `let us = size as usize`: the slice
\* left and the result.
memory_read_bytes(us) ==
    IF LenBelow(stream.stop - stream.pos, us)
    THEN [pos |-> stream.pos, stop |-> stream.pos,
          ret |-> RetErr(Fail(Cursor(stream.pos, <<>>), "PrematureEOF", <<>>))]
    ELSE [pos |-> stream.pos + us[Len(us)], stop |-> stream.stop,
          ret |-> RetItem("bytes", 0, NoTs,
                          <<SubSeq(stream.data, stream.pos + 1, stream.pos + us[Len(us)])>>)]

\* A skip_data that empties the slice when it is too short, as read_bytes
\* does.
memory_skip_data_empties(us) ==
    IF LenBelow(stream.stop - stream.pos, us)
    THEN [pos |-> stream.pos, stop |-> stream.pos,
          ret |-> RetErr(Fail(Cursor(stream.pos, <<>>), "PrematureEOF", <<>>))]
    ELSE [pos |-> stream.pos + us[Len(us)], stop |-> stream.stop,
          ret |-> RetItem("unit", 0, NoTs, <<>>)]

\* MemoryHprofRead::skip_data after `let us = size as usize`: the slice
\* left and the result.
memory_skip_data(us) ==
    IF LenBelow(stream.stop - stream.pos, us)
    THEN [pos |-> stream.pos, stop |-> stream.stop,
          ret |-> RetErr(Fail(Cursor(stream.pos, <<>>), "PrematureEOF", <<>>))]
    ELSE [pos |-> stream.pos + us[Len(us)], stop |-> stream.stop,
          ret |-> RetItem("unit", 0, NoTs, <<>>)]

\* StreamHprofRead::skip_data on a stream that holds the bytes of the slice:
\* `io::copy(&mut self.stream.take(size), &mut io::sink())?` reads up to
\* size bytes (a u64) and hands on the I/O error the stream ends with;
\* `copied < size` is PrematureEOF.
stream_skip_data(size) ==
    IF ~LenBelow(stream.stop - stream.pos, size)
    THEN [pos |-> stream.pos + size[8], stop |-> stream.stop,
          ret |-> RetItem("unit", 0, NoTs, <<>>)]
    ELSE [pos |-> stream.stop, stop |-> stream.stop,
          ret |-> RetErr(Fail(Cursor(stream.stop, <<>>),
                              IF stream.end = "ioerr" THEN "Io" ELSE "PrematureEOF",
                              <<>>))]

\* MemoryHprofRead::try_read_u8: try_read_u8 of the slice.
memory_try_read_u8 == try_read(Cursor(stream.pos, <<stream.stop - stream.pos>>), "u8", "BigEndian")

InitMemory ==
    /\ \E data \in ByteStrings, bits \in {32, 64}, end \in {"eof", "ioerr"} :
         stream = [data |-> data, end |-> end, pos |-> 0, stop |-> Len(data),
                   usize |-> bits]
    /\ hprof = [id_size |-> 0, order |-> "Network", timestamp |-> Zero4 \o Zero4,
                load_primitive_arrays |-> TRUE, load_object_arrays |-> TRUE,
                overflow_checks |-> FALSE,
                class_info |-> [k \in {} |-> 0]]
    /\ state = InNormal
    /\ last = [ret |-> RetInit, from |-> InNormal, pos0 |-> 0, prev |-> RetInit,
               left |-> <<>>, call |-> [f |-> "", size |-> U64B(0), len |-> 0]]

\* A call on the reader returned: the slice it leaves and what it returned.
MemoryReturned(pos, stop, ret, f, size) ==
    /\ stream' = [stream EXCEPT !.pos = pos, !.stop = stop]
    /\ last' = [ret |-> ret, from |-> state, pos0 |-> stream.pos, prev |-> last.ret,
                left |-> <<>>,
                call |-> [f |-> f, size |-> size, len |-> stream.stop - stream.pos]]
    /\ UNCHANGED <<hprof, state>>

\* reader.read_bytes(size)
MemoryReadBytes ==
    \E size \in MemSizes :
        \E r \in {memory_read_bytes(as_usize(size, stream.usize))} :
            MemoryReturned(r.pos, r.stop, r.ret, "bytes", size)

\* reader.try_read_u8()
MemoryTryReadU8 ==
    \E r \in {memory_try_read_u8} :
        MemoryReturned(r.c.pos, stream.stop, TryRet(r, "u8"), "u8", U64B(1))

\* reader.skip_data(size) on the memory source
MemorySkipData ==
    \E size \in MemSizes :
        \E r \in {memory_skip_data(as_usize(size, stream.usize))} :
            MemoryReturned(r.pos, r.stop, r.ret, "skip_data", size)

\* reader.skip_data(size) on the stream source
StreamSkipData ==
    \E size \in MemSizes :
        \E r \in {stream_skip_data(size)} :
            MemoryReturned(r.pos, r.stop, r.ret, "stream_skip_data", size)

NextMemory == MemoryReadBytes \/ MemoryTryReadU8 \/ MemorySkipData \/ StreamSkipData

SpecMemory == InitMemory /\ [][NextMemory]_vars

(***************************************************************************)
(* The two decoders of a ClassDump body, read_class_description            *)
(* (stream.rs) and read_data_20_class_dump (records.rs), each called on a  *)
(* fresh reader at the start of the same source.                           *)
(***************************************************************************)
\* The body of a ClassDump (after the subtag) of class 7 with the given
\* instance size.
ClassBody(idsz, size, consts, statics, fields) ==
    IdB(idsz, 7) \o U32B(1) \o IdB(idsz, 0)
    \o LayoutBytes(idsz, <<"id", "id", "id", "id", "id">>, 0) \o U32B(size)
    \o U16B(Len(consts)) \o Concat(consts)
    \o U16B(Len(statics)) \o Concat(statics)
    \o U16B(Len(fields)) \o Concat(fields)

\* Instance sizes: none, that of one Int field, and the byte lengths the
\* three tables of the classes below take on the wire.
InstanceSizes == {0, 4, 6, 11, 15, 20}

\* A class without tables, a class with one Int field, and a class with a
\* constant and a static field; the subrecord after the ClassDump.
ClassBodies(idsz) ==
    {b \o RootSub(idsz, TAG_GC_ROOT_UNKNOWN) :
        b \in UNION {{ClassBody(idsz, size, <<>>, <<>>, <<>>),
                      ClassBody(idsz, size, <<>>, <<>>, <<IdB(idsz, 100) \o <<FT_Int>>>>),
                      ClassBody(idsz, size, <<U16B(1) \o <<FT_Byte, 5>>>>,
                                <<IdB(idsz, 3) \o <<FT_Short, 0, 9>>>>, <<>>)} :
                     size \in InstanceSizes}}

ClassSources(idsz) ==
    UNION {{SubSeq(w, 1, n) : n \in 0..Len(w)} : w \in ClassBodies(idsz)}

InitClass ==
    /\ \E idsz \in IdSizes, end \in {"eof", "ioerr"} :
         /\ \E data \in ClassSources(idsz) :
              stream = [data |-> data, end |-> end, pos |-> 0]
         /\ hprof = [id_size |-> idsz, order |-> "Network", timestamp |-> Zero4 \o Zero4,
                     load_primitive_arrays |-> TRUE, load_object_arrays |-> TRUE,
                     overflow_checks |-> FALSE,
                     class_info |-> [k \in {} |-> 0]]
    /\ state = InNormal
    /\ last = [ret |-> RetInit, from |-> InNormal, pos0 |-> 0, prev |-> RetInit,
               left |-> <<>>, call |-> [f |-> "", before |-> "", end |-> 0]]

\* What a decoder returns: Ok(ClassDescription) or the Err.
ClassRet(c) ==
    IF Failed(c) THEN RetErr(c)
    ELSE RetItem("ClassDescription", TAG_GC_CLASS_DUMP, NoTs, c.vals)

\* The decoder f returned c: the reader is where the call left it, and the
\* record of the call keeps the decoder called before, what it returned and
\* where it left its reader.
ClassReturned(c, f) ==
    /\ stream' = [stream EXCEPT !.pos = c.pos]
    /\ last' = [ret |-> ClassRet(c), from |-> state, pos0 |-> 0, prev |-> last.ret,
                left |-> <<>>,
                call |-> [f |-> f, before |-> last.call.f, end |-> stream.pos]]
    /\ UNCHANGED <<hprof, state>>

\* read_class_description(&mut stream, id_reader) at the start of the source.
ReadClassDescription ==
    \E c \in {read_class_description(Cursor(0, <<>>))} :
        ClassReturned(c, "read_class_description")

\* read_data_20_class_dump(&mut stream, id_reader) at the start of the source.
ReadData20ClassDump ==
    \E c \in {read_data_20_class_dump(Cursor(0, <<>>))} :
        ClassReturned(c, "read_data_20_class_dump")

NextClass == ReadClassDescription \/ ReadData20ClassDump

SpecClass == InitClass /\ [][NextClass]_vars

(***************************************************************************)
(* What a call did, read off the source bytes and the record of the call.  *)
(***************************************************************************)
\* The big-endian bytes a minus b: the borrow out of the top byte, then the
\* bytes of the difference.
RECURSIVE SubBytes(_, _, _)
SubBytes(a, b, borrow) ==
    IF a = <<>> THEN <<borrow>>
    ELSE SubBytes(SubSeq(a, 1, Len(a) - 1), SubSeq(b, 1, Len(b) - 1),
                  IF a[Len(a)] < b[Len(b)] + borrow THEN 1 ELSE 0)
         \o <<(a[Len(a)] - b[Len(b)] - borrow + 256) % 256>>

\* ts = base + the delta of the record header that ends at p, in the integers.
IsBasePlusDelta(ts, base, p) ==
    SubBytes(ts, base, 0) = <<0>> \o Zero4 \o SubSeq(stream.data, p - 7, p - 4)

Called == last.ret.kind # "init"

\* The fields of the record header that ends at position p.
HeaderTag(p) == stream.data[p - 8]
HeaderDelta(p) == BE(SubSeq(stream.data, p - 7, p - 4))
HeaderSize(p) == BE(SubSeq(stream.data, p - 3, p))

\* The position past the complete HEAP_DUMP_END headers that start at p.
RECURSIVE SkipEnds(_)
SkipEnds(p) ==
    IF p + 9 <= Len(stream.data) /\ stream.data[p + 1] = 44 THEN SkipEnds(p + 9) ELSE p

\* The call looked for a top-level tag, the last time at LookPos.
Looked == Called /\ (last.from.tag = "InNormal" \/ last.left # <<>>)
LookPos ==
    SkipEnds(IF last.left # <<>> THEN last.left[Len(last.left)].at ELSE last.pos0)
LookTag == stream.data[LookPos + 1]

\* Every segment the call closed was closed at its declared end.
ExactClosings ==
    \A i \in DOMAIN last.left :
        last.left[i].at = last.left[i].start + last.left[i].size

\* The call decoded in a dump segment: one it entered, or the one it was in.
EntersSegment == Looked /\ LookPos + 9 <= Len(stream.data) /\ LookTag \in {12, 28}
InSegment == Called /\ (EntersSegment \/ (last.from.tag = "InData" /\ last.left = <<>>))
SegStart == IF EntersSegment THEN LookPos + 9 ELSE last.from.start
SegSize == IF EntersSegment THEN HeaderSize(LookPos + 9) ELSE last.from.size
SubPos == IF EntersSegment THEN LookPos + 9 ELSE last.pos0
SubTag == stream.data[SubPos + 1]

\* C1: once next has returned None, every later call returns None and
\* consumes no byte of the source; the state is End and stays End.
C1_EndIsAbsorbing ==
    /\ last.ret.kind = "none" => state.tag = "Eof"
    /\ last.prev.kind = "none" =>
         /\ last.ret.kind = "none"
         /\ stream.pos = last.pos0
         /\ last.from.tag = "Eof"

C1_Witness ==
    /\ last.prev.kind = "none" /\ last.ret.kind = "none"
    /\ stream.pos = Len(stream.data) /\ stream.pos > 0

\* C2: a call of next that returns Some(Err), whatever the error and whether
\* it started at top level or in a dump segment, leaves the state End, and
\* the call right after it returns None and consumes nothing.
C2_ErrorEnds ==
    /\ last.ret.kind = "err" => state.tag = "Eof"
    /\ last.prev.kind = "err" =>
         /\ last.ret.kind = "none"
         /\ stream.pos = last.pos0

C2_Witness ==
    /\ last.prev.kind = "err" /\ last.prev.rec = "UnknownClass"
    /\ last.ret.kind = "none" /\ state.tag = "Eof"

\* C3: a top-level tag lookahead that finds the source exhausted exactly at
\* a record boundary makes next return None, with no error, and the state
\* becomes End.
C3_GracefulEnd ==
    (Looked /\ ExactClosings /\ LookPos = Len(stream.data) /\ stream.end = "eof")
    => (last.ret.kind = "none" /\ state.tag = "Eof" /\ stream.pos = LookPos)

C3_Witness ==
    /\ Looked /\ ExactClosings /\ LookPos = Len(stream.data) /\ stream.end = "eof"
    /\ last.from.tag = "InNormal" /\ last.pos0 > 0
    /\ last.ret.kind = "none" /\ last.prev.kind = "item"

\* The body sizes of the top-level records of fixed layout.
FixedBody ==
    [t \in {2, 3, 4, 7, 10, 11} |->
        CASE t = 2 -> 8 + 2 * hprof.id_size
          [] t = 3 -> 4
          [] t = 4 -> 8 + 4 * hprof.id_size
          [] t = 7 -> 24
          [] t = 10 -> 8 + 4 * hprof.id_size
          [] t = 11 -> 4]

ShortHeader ==
    Looked /\ LookPos < Len(stream.data) /\ Len(stream.data) < LookPos + 9
ShortBody ==
    /\ Looked /\ LookPos + 9 <= Len(stream.data)
    /\ LookTag \in DOMAIN FixedBody
    /\ Len(stream.data) < LookPos + 9 + FixedBody[LookTag]
LookaheadIoError == Looked /\ LookPos = Len(stream.data) /\ stream.end = "ioerr"

\* C4: when the input ends after a top-level tag byte but before the delta,
\* the payload size or the body of a non-dump record is complete, or when the
\* tag lookahead fails with an I/O error, next returns Some(Err) and the
\* state becomes End; a call that found a tag byte never returns None.
C4_ShortReadIsError ==
    /\ (ShortHeader \/ ShortBody \/ LookaheadIoError) =>
         /\ last.ret.kind = "err"
         /\ last.ret.rec \in {"UnexpectedEof", "Io"}
         /\ state.tag = "Eof"
    /\ LookaheadIoError => last.ret.rec = "Io"
    /\ (Looked /\ LookPos < Len(stream.data)) => last.ret.kind # "none"

C4_Witness ==
    /\ ShortBody /\ stream.end = "eof" /\ Len(stream.data) > LookPos + 9
    /\ last.ret.kind = "err" /\ state.tag = "Eof"

\* C5: when the input ends inside a dump segment before payload_size bytes
\* of it are consumed, also exactly at a subrecord boundary, the call yields
\* an error: a segment is not closed short of its payload_size without one.
C5_ShortSegmentIsError ==
    \A i \in DOMAIN last.left :
        last.left[i].at < last.left[i].start + last.left[i].size
        => last.ret.kind = "err"

KnownTop == (1..7) \cup {10, 11, 12, 28, 44}

UnknownTop == Looked /\ LookPos + 9 <= Len(stream.data) /\ LookTag \notin KnownTop

\* C6: at top level a tag outside {0x01..0x07, 0x0A, 0x0B, 0x0C, 0x1C, 0x2C}
\* yields Err(UnknownPacket(tag, payload_size)) with the tag and the payload
\* size of the header; the payload is not skipped; the next call returns
\* None.
C6_UnknownPacket ==
    /\ UnknownTop =>
         /\ last.ret.kind = "err" /\ last.ret.rec = "UnknownPacket"
         /\ last.ret.vals = <<LookTag, HeaderSize(LookPos + 9)>>
         /\ stream.pos = LookPos + 9
         /\ state.tag = "Eof"
    /\ last.ret.rec = "UnknownPacket" => UnknownTop
    /\ last.prev.rec = "UnknownPacket" =>
         /\ last.ret.kind = "none"
         /\ stream.pos = last.pos0

C6_Witness ==
    /\ last.prev.rec = "UnknownPacket" /\ last.prev.vals[2] > 0
    /\ last.ret.kind = "none"
    /\ Len(stream.data) >= stream.pos + last.prev.vals[2]

KnownSub == {255} \cup (1..8) \cup (32..35)

UnknownSub == InSegment /\ SubPos < Len(stream.data) /\ SubTag \notin KnownSub

\* C7: in a dump segment a subtag outside {0xFF, 0x01..0x08, 0x20..0x23}
\* yields Err(UnknownSubpacket(subtag)); the state becomes End and the next
\* call returns None.
C7_UnknownSubpacket ==
    /\ UnknownSub =>
         /\ last.ret.kind = "err" /\ last.ret.rec = "UnknownSubpacket"
         /\ last.ret.vals = <<SubTag>>
         /\ stream.pos = SubPos + 1
         /\ state.tag = "Eof"
    /\ last.ret.rec = "UnknownSubpacket" => UnknownSub
    /\ last.prev.rec = "UnknownSubpacket" =>
         /\ last.ret.kind = "none"
         /\ stream.pos = last.pos0

C7_Witness ==
    /\ last.prev.rec = "UnknownSubpacket" /\ last.ret.kind = "none"
    /\ last.from.tag = "Eof" /\ stream.pos > 9 + hprof.id_size

\* C8: a tag 0x0C or 0x1C puts the iterator in a dump segment bounded to the
\* payload_size of the header and yields no item for the header; every
\* subrecord yielded in the segment carries base + the delta of the
\* segment's header; after a decoded subrecord the state is still the
\* segment, with the same timestamp.
C8_SegmentTimestamp ==
    /\ state.tag = "InData" =>
         /\ state.start >= 9 /\ HeaderTag(state.start) \in {12, 28}
         /\ state.size = HeaderSize(state.start)
         /\ IsBasePlusDelta(state.ts, hprof.timestamp, state.start)
         /\ state.limit = state.start + state.size - stream.pos
         /\ state.limit >= 0
    /\ last.ret.rec = "Dump" => (last.ret.kind = "item" /\ InSegment)
    /\ (InSegment /\ last.ret.kind = "item") =>
         /\ last.ret.rec = "Dump" /\ last.ret.sub = SubTag
         /\ state.tag = "InData" /\ state.start = SegStart
         /\ last.ret.ts = state.ts
    /\ (last.ret.kind = "item" /\ last.from.tag = "InData" /\ last.left = <<>>) =>
         /\ state.ts = last.from.ts
         /\ state.start = last.from.start /\ state.size = last.from.size

C8_Witness ==
    /\ last.ret.kind = "item" /\ last.ret.rec = "Dump"
    /\ last.from.tag = "InData" /\ last.left = <<>>
    /\ HeaderDelta(state.start) > 0
    /\ last.prev.rec = "Dump"

\* The bytes the root subrecords need after their subtag.
RootNeed ==
    [t \in {255, 1, 2, 3, 4, 5, 6, 7, 8} |->
        CASE t \in {255, 5, 7} -> hprof.id_size
          [] t = 1 -> 2 * hprof.id_size
          [] t \in {2, 3, 8} -> hprof.id_size + 8
          [] t \in {4, 6} -> hprof.id_size + 4]

Overlong ==
    /\ InSegment /\ SubPos < Len(stream.data) /\ SubTag \in DOMAIN RootNeed
    /\ SubPos + 1 + RootNeed[SubTag] > SegStart + SegSize

\* C9: in a dump segment no read consumes a byte past the end of the
\* segment (at most payload_size bytes after its header), and a subrecord
\* that needs more bytes than the segment has left yields an error, then End,
\* instead of reading the bytes of the next top-level record.
C9_SegmentBounded ==
    /\ state.tag = "InData" => stream.pos <= state.start + state.size
    /\ InSegment => stream.pos <= SegStart + SegSize
    /\ Overlong => (last.ret.kind = "err" /\ state.tag = "Eof")

C9_Witness ==
    /\ Overlong /\ Len(stream.data) >= SubPos + 1 + RootNeed[SubTag]
    /\ last.ret.kind = "err" /\ last.ret.rec = "UnexpectedEof"
    /\ stream.pos = SegStart + SegSize /\ state.tag = "Eof"

\* C10: when the iterator leaves a dump segment for the top level on an
\* input that has at least payload_size bytes after the segment header,
\* exactly payload_size bytes were consumed since the header, and the next
\* top-level tag is read at header end + payload_size.
C10_SegmentConsumed ==
    \A i \in DOMAIN last.left :
        /\ HeaderTag(last.left[i].start) \in {12, 28}
        /\ last.left[i].size = HeaderSize(last.left[i].start)
        /\ Len(stream.data) >= last.left[i].start + last.left[i].size =>
             /\ last.left[i].at = last.left[i].start + last.left[i].size
             /\ stream.pos >= last.left[i].at
             /\ (last.ret.kind = "item" /\ last.ret.rec # "Dump" /\ i = Len(last.left))
                  => stream.pos >= SkipEnds(last.left[i].at) + 9

C10_Witness ==
    /\ last.left # <<>> /\ last.from.tag = "InData"
    /\ last.left[1].size > 0
    /\ last.left[1].at = last.left[1].start + last.left[1].size
    /\ last.ret.kind = "item" /\ last.ret.rec = "EndThread"
    /\ last.pos0 = last.left[1].at

\* C11: a dump segment with payload_size 0 yields no subrecord; the call that
\* read its header restores the parent source and goes on with the top-level
\* record after the header, or returns None at the end of the input.
C11_EmptySegment ==
    /\ ~(EntersSegment /\ SegSize = 0)
    /\ \A i \in DOMAIN last.left :
         last.left[i].size = 0 =>
           /\ HeaderTag(last.left[i].start) \in {12, 28}
           /\ HeaderSize(last.left[i].start) = 0
           /\ last.left[i].at = last.left[i].start
           /\ last.ret.rec = "Dump" => SegStart > last.left[i].start
           /\ (i = Len(last.left) /\ LookPos = Len(stream.data) /\ stream.end = "eof")
                => last.ret.kind = "none"
           /\ (i = Len(last.left) /\ LookPos + 13 <= Len(stream.data) /\ LookTag = 11)
                => /\ last.ret.kind = "item" /\ last.ret.rec = "EndThread"
                   /\ stream.pos = LookPos + 13

C11_Witness ==
    /\ last.left # <<>> /\ last.left[1].size = 0 /\ last.from.tag = "InNormal"
    /\ last.pos0 = 0 /\ last.ret.kind = "item" /\ last.ret.rec = "EndThread"
    /\ stream.pos = 22

\* The bytes of a source that holds one HeapDumpSegment with one
\* RootStickyClass, then HeapDumpEnd: header, subtag 5, id, header.
OneStickyThenEnd ==
    /\ Len(stream.data) = 19 + hprof.id_size
    /\ stream.data[1] = 28 /\ HeaderSize(9) = 1 + hprof.id_size
    /\ stream.data[10] = 5
    /\ stream.data[11 + hprof.id_size] = 44
    /\ stream.end = "eof"

\* The call passed at least one HEAP_DUMP_END header before its last
\* top-level lookahead.
PassedEnd ==
    /\ Looked
    /\ LookPos > (IF last.left # <<>> THEN last.left[Len(last.left)].at ELSE last.pos0)

\* C12: a top-level HeapDumpEnd (tag 0x2C) yields no item of its own; the
\* same call goes on at top level with the record after it, so a
\* HeapDumpSegment with one RootStickyClass, then HeapDumpEnd and the end of
\* the input, yields exactly that Dump and then None.
C12_HeapDumpEnd ==
    /\ last.ret.kind = "item" =>
         last.ret.rec \in {"String", "LoadClass", "UnloadClass", "StackFrame",
                           "StackTrace", "AllocSites", "HeapSummary", "StartThread",
                           "EndThread", "Dump"}
    /\ PassedEnd =>
         /\ stream.pos >= LookPos
         /\ (LookPos = Len(stream.data) /\ stream.end = "eof") => last.ret.kind = "none"
         /\ (LookPos + 13 <= Len(stream.data) /\ LookTag = 11) =>
              (last.ret.kind = "item" /\ last.ret.rec = "EndThread"
               /\ stream.pos = LookPos + 13)
    /\ (OneStickyThenEnd /\ Called) =>
         /\ last.prev.kind = "init" =>
              /\ last.ret.kind = "item" /\ last.ret.rec = "Dump" /\ last.ret.sub = 5
              /\ stream.pos = 10 + hprof.id_size
         /\ last.prev.kind # "init" =>
              (last.ret.kind = "none" /\ stream.pos = Len(stream.data))

C12_Witness ==
    /\ OneStickyThenEnd /\ last.prev.kind = "item" /\ last.prev.rec = "Dump"
    /\ last.prev.sub = 5 /\ last.ret.kind = "none" /\ PassedEnd
    /\ last.from.tag = "InData"

\* Where the header of the yielded record ends: the header of the segment
\* for a Dump, the header read by the call otherwise.
ItemHeader == IF last.ret.rec = "Dump" THEN SegStart ELSE LookPos + 9

\* C13: every record yielded carries the timestamp base + delta, the 64-bit
\* timestamp of the header plus the 32-bit delta of the record's header, for
\* every base up to 2^64 - 1.
C13_AbsoluteTimestamp ==
    last.ret.kind = "item" =>
        IsBasePlusDelta(last.ret.ts, hprof.timestamp, ItemHeader)

\* C16: an iterator returned by read_hprof starts with an empty class table,
\* so the class descriptions of an earlier source are not used for the
\* InstanceDumps of a later one.
C16_FreshTable ==
    (last.from.tag = "NoIterator" /\ state.tag = "InNormal")
        => DOMAIN hprof.class_info = {}

\* The call decoded, or tried to decode, a subrecord of the given subtag; the
\* bytes the segment and the source have for it after the subtag.
AtSub(tag) ==
    /\ InSegment /\ SubPos < SegStart + SegSize /\ SubPos < Len(stream.data)
    /\ SubTag = tag
SubRoom == Min(Len(stream.data), SegStart + SegSize) - (SubPos + 1)

\* The elements of a sequence.
Range(s) == {s[i] : i \in DOMAIN s}

\* C14: a decoded ClassDump for class id c is in the class table under key c
\* when next returns, visible to every later subrecord (an InstanceDump is
\* decoded with the descriptors the table holds); a later ClassDump with the
\* same class id replaces the earlier entry.
C14_ClassDumpInserted ==
    /\ (AtSub(32) /\ last.ret.kind = "item") =>
         /\ last.ret.vals[1] \in DOMAIN hprof.class_info
         /\ hprof.class_info[last.ret.vals[1]].class_id = last.ret.vals[1]
         /\ hprof.class_info[last.ret.vals[1]].super_class_object_id = last.ret.vals[3]
         /\ hprof.class_info[last.ret.vals[1]].instance_fields = last.ret.vals[15]
         /\ hprof.class_info[last.ret.vals[1]].static_fields = last.ret.vals[13]
         /\ hprof.class_info[last.ret.vals[1]].const_fields = last.ret.vals[11]
    /\ (AtSub(33) /\ last.ret.kind = "item") =>
         \A e \in Range(last.ret.vals) :
            /\ e[2] \in DOMAIN hprof.class_info
            /\ e[3] \in Range(hprof.class_info[e[2]].instance_fields)

C14_Witness ==
    /\ AtSub(32) /\ last.ret.kind = "item"
    /\ last.prev.kind = "item" /\ last.prev.sub = 32
    /\ last.prev.vals[1] = last.ret.vals[1]
    /\ last.prev.vals[15] # last.ret.vals[15]
    /\ hprof.class_info[last.ret.vals[1]].instance_fields = last.ret.vals[15]

\* C15: the class table is append-only during an iteration: no call of
\* next, whatever it returns, removes a class id from the table.
C15_TableAppendOnly ==
    [][DOMAIN hprof.class_info \subseteq DOMAIN hprof'.class_info]_vars

C15_Witness ==
    /\ Cardinality(DOMAIN hprof.class_info) = 2
    /\ last.ret.kind = "none" /\ last.prev.kind = "err" /\ state.tag = "Eof"

\* The id at position p of the source, as the reader widens it.
IdAt(p) ==
    IF hprof.id_size = 4 THEN Zero4 \o SubSeq(stream.data, p + 1, p + 4)
    ELSE SubSeq(stream.data, p + 1, p + 8)

\* The header of the InstanceDump at SubPos: object id, class id, data_size,
\* where the data begins, and how many bytes there are for the fields.
InstHeader == 2 * hprof.id_size + 8
InstComplete == AtSub(33) /\ SubRoom >= InstHeader
InstObject == IdAt(SubPos + 1)
InstClass == IdAt(SubPos + 1 + hprof.id_size + 4)
InstData == SubPos + 1 + InstHeader
InstDataSize == BE(SubSeq(stream.data, InstData - 3, InstData))
InstRoom == Min(InstDataSize, SubRoom - InstHeader)

\* The bytes of a value of a field type, and of the fields of a class.
Width(ty) ==
    CASE ty = 2 -> hprof.id_size
      [] ty \in {4, 8} -> 1
      [] ty \in {5, 9} -> 2
      [] ty \in {6, 10} -> 4
      [] ty \in {7, 11} -> 8

RECURSIVE FieldsWidth(_)
FieldsWidth(fields) ==
    IF fields = <<>> THEN 0 ELSE Width(Head(fields)[2]) + FieldsWidth(Tail(fields))

\* The class chain from id with `used` bytes of data taken so far: where it
\* ends ("zero": at id 0; "missing": at an id the table lacks; "short": in a
\* class whose fields the data does not hold; "loop": nowhere, the walk
\* having passed more classes without a field than the table holds).
RECURSIVE ChainWalk(_, _, _)
ChainWalk(id, used, fuel) ==
    IF id = IdZero THEN [end |-> "zero", id |-> id, used |-> used]
    ELSE IF id \notin DOMAIN hprof.class_info
    THEN [end |-> "missing", id |-> id, used |-> used]
    ELSE IF used + FieldsWidth(hprof.class_info[id].instance_fields) > InstRoom
    THEN [end |-> "short", id |-> id, used |-> used]
    ELSE IF fuel = 0 THEN [end |-> "loop", id |-> id, used |-> used]
    ELSE ChainWalk(hprof.class_info[id].super_class_object_id,
                   used + FieldsWidth(hprof.class_info[id].instance_fields),
                   IF hprof.class_info[id].instance_fields = <<>> THEN fuel - 1
                   ELSE Cardinality(DOMAIN hprof.class_info))

InstWalk == ChainWalk(InstClass, 0, Cardinality(DOMAIN hprof.class_info))

TwosComplement(bs) ==
    IF bs[1] < 128 THEN BE(bs)
    ELSE -BE([i \in DOMAIN bs |-> 255 - bs[i]]) - 1

\* The value of a field of type ty held by the bytes bs.
Decoded(ty, bs) ==
    CASE ty = 2 -> (IF Len(bs) = 4 THEN Zero4 \o bs ELSE bs)
      [] ty = 4 -> bs # <<0>>
      [] ty \in {5, 6} -> BE(bs)
      [] ty \in {8, 9, 10} -> TwosComplement(bs)
      [] OTHER -> bs

\* What an InstanceDump of object o holds for the fields of class id, the
\* first of them at position p of the source, and for the whole chain.
RECURSIVE ClassValues(_, _, _, _)
ClassValues(o, id, fields, p) ==
    IF fields = <<>> THEN <<>>
    ELSE <<<<o, id, Head(fields),
             Decoded(Head(fields)[2],
                     SubSeq(stream.data, p + 1, p + Width(Head(fields)[2])))>>>>
         \o ClassValues(o, id, Tail(fields), p + Width(Head(fields)[2]))

RECURSIVE ChainValues(_, _, _, _)
ChainValues(o, id, p, fuel) ==
    IF id = IdZero \/ id \notin DOMAIN hprof.class_info \/ fuel = 0 THEN <<>>
    ELSE ClassValues(o, id, hprof.class_info[id].instance_fields, p)
         \o ChainValues(o, hprof.class_info[id].super_class_object_id,
                        p + FieldsWidth(hprof.class_info[id].instance_fields), fuel - 1)

\* The example: class 7 with the one field {name 100, Int} and no super-class,
\* and the data 00 00 00 05.
ExampleInstance ==
    /\ InstComplete /\ InstClass = Zero4 \o U32B(7)
    /\ InstClass \in DOMAIN hprof.class_info
    /\ hprof.class_info[InstClass].instance_fields = <<<<Zero4 \o U32B(100), 10>>>>
    /\ hprof.class_info[InstClass].super_class_object_id = IdZero
    /\ InstRoom >= 4
    /\ SubSeq(stream.data, InstData + 1, InstData + 4) = <<0, 0, 0, 5>>

\* C18: an InstanceDump is decoded by walking the class chain from
\* class_object through the super-class ids to id 0, decoding for each class
\* in that order one value per instance-field descriptor in declaration
\* order; the list pairs each value with its descriptor (class 7 with field
\* {100, Int} and data 00 00 00 05 give [({100, Int}, Int(5))]).
C18_InstanceValues ==
    /\ (AtSub(33) /\ last.ret.kind = "item") =>
         /\ InstComplete /\ InstWalk.end = "zero"
         /\ last.ret.vals = ChainValues(InstObject, InstClass, InstData,
                                        Cardinality(DOMAIN hprof.class_info))
    /\ (InstComplete /\ InstWalk.end = "zero") => last.ret.kind = "item"
    /\ ExampleInstance =>
         /\ last.ret.kind = "item"
         /\ last.ret.vals = <<<<InstObject, InstClass, <<Zero4 \o U32B(100), 10>>, 5>>>>

C18_Witness ==
    /\ AtSub(33) /\ last.ret.kind = "item" /\ Len(last.ret.vals) = 2
    /\ last.ret.vals[1][2] = Zero4 \o U32B(8) /\ last.ret.vals[1][3][2] = 8
    /\ last.ret.vals[1][4] = 1
    /\ last.ret.vals[2][2] = Zero4 \o U32B(7) /\ last.ret.vals[2][3][2] = 10
    /\ last.ret.vals[2][4] = 5

\* C19: for every decoded InstanceDump the bytes consumed after its data_size
\* field are data_size: the bytes of the data area that the fields of the
\* class chain do not use are skipped, so the next subtag is read at the end
\* of the instance header plus data_size.
C19_InstanceConsumed ==
    (AtSub(33) /\ last.ret.kind = "item") => stream.pos = InstData + InstDataSize

\* The array at SubPos: the bytes before its elements (ids, serial number,
\* count, and the class id or the element type), its count, the width of an
\* element, and the position after the elements.
ArrayHeader == IF SubTag = 34 THEN 2 * hprof.id_size + 8 ELSE hprof.id_size + 9
ArrayCount ==
    BE(SubSeq(stream.data, SubPos + 1 + hprof.id_size + 5, SubPos + 1 + hprof.id_size + 8))
ArrayType == stream.data[SubPos + 1 + ArrayHeader]
ArrayWidth == IF SubTag = 34 THEN hprof.id_size ELSE Width(ArrayType)
ArrayEnd == SubPos + 1 + ArrayHeader + ArrayCount * ArrayWidth
ArrayFlag == IF SubTag = 34 THEN hprof.load_object_arrays ELSE hprof.load_primitive_arrays
ArrayComplete ==
    /\ (AtSub(34) \/ AtSub(35)) /\ SubRoom >= ArrayHeader
    /\ (SubTag = 35 => ArrayType \in {4, 5, 6, 7, 8, 9, 10, 11})
    /\ SubRoom >= ArrayHeader + ArrayCount * ArrayWidth

\* C20: an ObjectArrayDump or PrimitiveArrayDump is decoded, and consumes
\* n x id_size or n x element size bytes, whether its load flag is on or
\* off; with the flag off the record has no payload (None), with the flag on
\* it has one.
C20_LoadFlags ==
    /\ ArrayComplete =>
         /\ last.ret.kind = "item" /\ last.ret.sub = SubTag
         /\ stream.pos = ArrayEnd
         /\ ArrayFlag => /\ last.ret.vals[3][1] = "Some"
                         /\ Len(last.ret.vals[3][2]) = ArrayCount
         /\ ~ArrayFlag => last.ret.vals[3] = None
    /\ ((AtSub(34) \/ AtSub(35)) /\ last.ret.kind = "item") => ArrayComplete

C20_Witness ==
    /\ ArrayComplete /\ SubTag = 35 /\ ~hprof.load_primitive_arrays
    /\ hprof.load_object_arrays
    /\ ArrayCount = MaxElems /\ ArrayWidth = 2
    /\ last.ret.kind = "item" /\ last.ret.vals[3] = None
    /\ stream.pos = ArrayEnd

\* The call read the header of a primitive array whose element kind is k.
PrimitiveOfKind(k) ==
    /\ AtSub(35) /\ SubRoom >= hprof.id_size + 9
    /\ stream.data[SubPos + 1 + hprof.id_size + 9] = k

\* C21: a primitive array whose element-kind byte is 2 (Object) fails with
\* InvalidField, with load_primitive_arrays on and off, and the iterator is
\* at End afterwards.
C21_ObjectInPrimitiveArray ==
    PrimitiveOfKind(2) =>
        /\ last.ret.kind = "err" /\ last.ret.rec = "InvalidField"
        /\ state.tag = "Eof"
        /\ stream.pos = SubPos + 1 + hprof.id_size + 9

C21_Witness ==
    /\ PrimitiveOfKind(2) /\ ~hprof.load_primitive_arrays
    /\ last.ret.rec = "InvalidField" /\ state.tag = "Eof"
    /\ ArrayCount = MaxElems /\ stream.pos < Len(stream.data)

\* read_hprof has returned: with an iterator, or with what last.ret holds.
HeaderReturned ==
    last.from.tag = "NoIterator" /\ (state.tag = "InNormal" \/ last.ret.kind # "init")

\* The header that starts at last.pos0: where its first 0x00 is (past the end
\* of the source when it has none), and its fields when it is complete.
BannerEnd ==
    CHOOSE z \in last.pos0 + 1..Len(stream.data) + 1 :
        /\ z <= Len(stream.data) => stream.data[z] = 0
        /\ \A y \in last.pos0 + 1..z - 1 : stream.data[y] # 0
HeaderComplete == HeaderReturned /\ BannerEnd + 12 <= Len(stream.data)
HeaderBanner == SubSeq(stream.data, last.pos0 + 1, BannerEnd - 1)
HeaderIdSize == BE(SubSeq(stream.data, BannerEnd + 1, BannerEnd + 4))
HeaderTimestamp == SubSeq(stream.data, BannerEnd + 5, BannerEnd + 12)

\* C22: read_hprof on a header whose id_size is neither 4 nor 8 fails with
\* IdSizeNotSupported(id_size) and returns no iterator.
C22_IdSizeChecked ==
    (HeaderComplete /\ HeaderIdSize \notin {4, 8}) =>
        /\ last.ret.kind = "err" /\ last.ret.rec = "IdSizeNotSupported"
        /\ state.tag = "NoIterator"

\* C23: read_hprof on an empty input returns Err(InvalidHeader); it does not
\* panic and returns no iterator.
C23_EmptyInput ==
    (HeaderReturned /\ Len(stream.data) = 0 /\ stream.end = "eof") =>
        /\ last.ret.kind = "err" /\ last.ret.rec = "InvalidHeader"
        /\ state.tag = "NoIterator"

\* C24: read_hprof takes the bytes before the first 0x00 as the banner, then
\* reads id_size, hi and lo and sets the base timestamp to (hi << 32) | lo;
\* on a file that holds only a valid header the first next returns None.
C24_Header ==
    /\ (HeaderReturned /\ state.tag = "InNormal") =>
         /\ HeaderComplete
         /\ hprof.banner = HeaderBanner
         /\ hprof.id_size = HeaderIdSize
         /\ hprof.timestamp = HeaderTimestamp
         /\ stream.pos = BannerEnd + 12
    /\ (HeaderComplete /\ \A i \in DOMAIN HeaderBanner : HeaderBanner[i] < 128)
         => state.tag = "InNormal"
    /\ (/\ last.from.tag = "InNormal" /\ last.prev.kind = "init" /\ Called
        /\ last.pos0 = Len(stream.data) /\ stream.end = "eof")
         => (last.ret.kind = "none" /\ state.tag = "Eof")

C24_Witness ==
    /\ last.from.tag = "InNormal" /\ last.prev.kind = "init"
    /\ last.pos0 = Len(stream.data) /\ stream.end = "eof" /\ last.pos0 = 17
    /\ last.ret.kind = "none" /\ hprof.banner = Banner /\ hprof.id_size = 8
    /\ hprof.timestamp = Zero4 \o U32B(5)

\* The call read the header of a String record whose payload holds at least
\* an identifier, and the source holds the whole payload.
WholeString ==
    /\ Looked /\ LookPos + 9 <= Len(stream.data) /\ LookTag = 1
    /\ HeaderSize(LookPos + 9) >= hprof.id_size
    /\ LookPos + 9 + HeaderSize(LookPos + 9) <= Len(stream.data)

\* C25: a String record with payload_size >= id_size is decoded as one
\* identifier and payload_size - id_size raw bytes: the body consumes
\* payload_size bytes and the record holds that id and those bytes as they
\* are, valid UTF-8 or not.
C25_StringRecord ==
    WholeString =>
        /\ last.ret.kind = "item" /\ last.ret.rec = "String"
        /\ last.ret.vals = <<IdAt(LookPos + 9),
                             SubSeq(stream.data, LookPos + 9 + hprof.id_size + 1,
                                    LookPos + 9 + HeaderSize(LookPos + 9))>>
        /\ stream.pos = LookPos + 9 + HeaderSize(LookPos + 9)
        /\ state.tag = "InNormal"

C25_Witness ==
    /\ WholeString /\ last.ret.kind = "item" /\ last.ret.rec = "String"
    /\ last.ret.vals[2] = <<255, 0, 104>>
    /\ stream.pos = LookPos + 12 + hprof.id_size

\* The bytes that are field kinds.
Kinds == {2, 4, 5, 6, 7, 8, 9, 10, 11}

\* The end of what the subrecord at SubPos can read.
SubLimit == SubPos + 1 + SubRoom

\* The three tables of the ClassDump at SubPos, read off the source from
\* position p on: stage 1 constants (key of 2 bytes, kind, value), stage 2
\* static fields (id, kind, value), stage 3 instance fields (id, kind); n is
\* the number of entries left in the stage, -1 before its count is read.
\* The result is "ok" and the end of the ClassDump, "short" when the bytes
\* run out, or "bad" and the position of the first byte that is no kind.
RECURSIVE ClassScan(_, _, _)
ClassScanKind(p, stage, n, kp) ==
    IF kp > SubLimit THEN [r |-> "short", p |-> p, stage |-> stage]
    ELSE IF stream.data[kp] \notin Kinds THEN [r |-> "bad", p |-> kp, stage |-> stage]
    ELSE IF stage = 3 THEN ClassScan(kp, stage, n - 1)
    ELSE IF kp + Width(stream.data[kp]) > SubLimit
    THEN [r |-> "short", p |-> p, stage |-> stage]
    ELSE ClassScan(kp + Width(stream.data[kp]), stage, n - 1)

ClassScan(p, stage, n) ==
    IF stage = 4 THEN [r |-> "ok", p |-> p, stage |-> stage]
    ELSE IF n = -1
    THEN IF p + 2 > SubLimit THEN [r |-> "short", p |-> p, stage |-> stage]
         ELSE ClassScan(p + 2, stage, BE(SubSeq(stream.data, p + 1, p + 2)))
    ELSE IF n = 0 THEN ClassScan(p, stage + 1, -1)
    ELSE ClassScanKind(p, stage, n, p + (IF stage = 1 THEN 2 ELSE hprof.id_size) + 1)

ClassHeader == 7 * hprof.id_size + 8
ClassTables == ClassScan(SubPos + 1 + ClassHeader, 1, -1)
BadClassKind == AtSub(32) /\ SubRoom >= ClassHeader /\ ClassTables.r = "bad"
BadArrayKind ==
    /\ AtSub(35) /\ SubRoom >= hprof.id_size + 9
    /\ stream.data[SubPos + 1 + hprof.id_size + 9] \notin Kinds

\* C26: a field-kind byte outside {2, 4, 5, 6, 7, 8, 9, 10, 11} in a constant,
\* a static field or an instance-field descriptor of a ClassDump, or as the
\* element kind of a primitive array, fails the record with InvalidField, and
\* the iterator is at End afterwards.
C26_InvalidField ==
    /\ BadClassKind =>
         /\ last.ret.kind = "err" /\ last.ret.rec = "InvalidField"
         /\ state.tag = "Eof" /\ stream.pos = ClassTables.p
    /\ BadArrayKind =>
         /\ last.ret.kind = "err" /\ last.ret.rec = "InvalidField"
         /\ state.tag = "Eof" /\ stream.pos = SubPos + 1 + hprof.id_size + 9
    /\ last.ret.rec = "InvalidField" =>
         (BadClassKind \/ BadArrayKind \/ PrimitiveOfKind(2))

C26_Witness ==
    /\ BadClassKind /\ ClassTables.stage = 3 /\ stream.data[ClassTables.p] = 12
    /\ last.ret.rec = "InvalidField" /\ state.tag = "Eof"
    /\ last.from.tag = "InNormal"

\* C27: on a finite well-formed input repeated calls of next eventually
\* return None: every call that does not end the iteration consumes bytes, so
\* the items are finitely many, and the iterator reaches End.
C27_Terminates ==
    /\ [](last.ret.kind # "init" /\ last.from.tag \in {"InNormal", "InData"}
              => <<last.pos0, last.from.tag>> # Progress)
    /\ <>(last.ret.kind = "none" /\ state.tag = "Eof")

C27_Witness ==
    /\ last.ret.kind = "none" /\ state.tag = "Eof"
    /\ last.prev.kind = "item" /\ last.prev.rec = "Dump"
    /\ stream.pos = Len(stream.data) /\ DOMAIN hprof.class_info # {}

\* The call of the readers on their own that came last: the bytes within its
\* reach (to the end of the source or to the limit of the Take), the bytes
\* it was given, and whether a read error waits where its reach ends.
TryCalled == last.ret.kind # "init" /\ last.call.f \in Formats
TryAvail == Room(Cursor(last.pos0, last.call.lims))
TryBytes == SubSeq(stream.data, last.pos0 + 1, last.pos0 + Size(last.call.f))
TryErrorWaits ==
    /\ stream.end = "ioerr"
    /\ \A i \in DOMAIN last.call.lims : last.call.lims[i] > Len(stream.data) - last.pos0

\* The value of bytes with the least significant byte first.
RECURSIVE LE(_)
LE(bs) == IF bs = <<>> THEN 0 ELSE bs[1] + 256 * LE(Tail(bs))

Unsigned(T, bs) == IF T = "LittleEndian" THEN LE(bs) ELSE BE(bs)
TopByte(T, bs) == IF T = "LittleEndian" THEN bs[Len(bs)] ELSE bs[1]
Signed(T, bs) ==
    IF TopByte(T, bs) < 128 THEN Unsigned(T, bs)
    ELSE -Unsigned(T, [i \in DOMAIN bs |-> 255 - bs[i]]) - 1
InOrderValue(f, T, bs) ==
    IF f \in {"i8", "i16", "i32"} THEN Signed(T, bs) ELSE Unsigned(T, bs)

\* C28: try_read_* of an n-byte value returns None only with 0 bytes
\* available, Some(Err(UnexpectedEof)) only with 1..n-1, and Some(Ok(value))
\* exactly with n or more, the value being the next n bytes in the order
\* asked for and exactly n bytes consumed; a source that runs out by end of
\* file or by the limit of a Take gives None at 0 bytes and
\* Some(Err(UnexpectedEof)) at 1..n-1.
C28_TryRead ==
    TryCalled =>
        /\ last.ret.kind = "none" => TryAvail = 0
        /\ (last.ret.kind = "err" /\ last.ret.rec = "UnexpectedEof")
               => TryAvail \in 1..(Size(last.call.f) - 1)
        /\ last.ret.kind = "item" <=> TryAvail >= Size(last.call.f)
        /\ last.ret.kind = "item" =>
               /\ stream.pos = last.pos0 + Size(last.call.f)
               /\ last.ret.vals = <<InOrderValue(last.call.f, last.call.T, TryBytes)>>
        /\ ~TryErrorWaits =>
               /\ TryAvail = 0 => last.ret.kind = "none" /\ stream.pos = last.pos0
               /\ TryAvail \in 1..(Size(last.call.f) - 1)
                      => last.ret.kind = "err" /\ last.ret.rec = "UnexpectedEof"

C28_Witness ==
    /\ TryCalled /\ last.call.f = "i16" /\ last.call.T = "LittleEndian"
    /\ last.ret.kind = "item" /\ last.ret.vals = <<-32255>>
    /\ TryBytes = <<1, 130>> /\ stream.pos < Len(stream.data)
    /\ last.pos0 > 0

\* The call of read_bytes(n) that came last: whether the slice held at least
\* n bytes, and the first n of them.
ReadBytesCalled == last.ret.kind # "init" /\ last.call.f = "bytes"
ReadBytesEnough == ~LenBelow(last.call.len, last.call.size)
ReadBytesHead == SubSeq(stream.data, last.pos0 + 1, last.pos0 + last.call.size[8])

\* C29: read_bytes(n) on a slice of at least n bytes returns its first n
\* bytes and advances by n; on a shorter slice it returns PrematureEOF and
\* leaves the slice empty, and the try_read_u8 that follows returns None.
C29_ReadBytes ==
    /\ (ReadBytesCalled /\ ReadBytesEnough) =>
         /\ last.ret.kind = "item" /\ last.ret.vals = <<ReadBytesHead>>
         /\ stream.pos = last.pos0 + last.call.size[8]
         /\ stream.stop - stream.pos = last.call.len - last.call.size[8]
    /\ (ReadBytesCalled /\ ~ReadBytesEnough) =>
         /\ last.ret.kind = "err" /\ last.ret.rec = "PrematureEOF"
         /\ stream.stop = stream.pos
    /\ (last.ret.kind # "init" /\ last.call.f = "u8"
           /\ last.prev.kind = "err" /\ last.prev.rec = "PrematureEOF")
         => last.ret.kind = "none"

\* The call of read_id on its own that came last, the bytes it was given and
\* the identifier they hold: most significant byte first in network order,
\* last in the native order of a little-endian host, widened to 8 bytes.
ReadIdCalled == last.ret.kind # "init" /\ last.call.f = "id"
ReadIdBytes == SubSeq(stream.data, last.pos0 + 1, last.pos0 + hprof.id_size)
NetworkFirst(bs) ==
    IF hprof.order = "Network" THEN bs ELSE [i \in DOMAIN bs |-> bs[Len(bs) + 1 - i]]
UniformId(bs) == IF Len(bs) = 4 THEN <<0, 0, 0, 0>> \o NetworkFirst(bs) ELSE NetworkFirst(bs)

C31_EmptyBuffer ==
    (last.ret.kind # "init" /\ last.call.f = "buf" /\ last.call.n = 0) =>
        /\ last.ret.kind = "none"
        /\ stream.pos = last.pos0

C31_Witness ==
    /\ last.ret.kind = "none" /\ last.call.f = "buf" /\ last.call.n = 0
    /\ last.call.lims = <<>> /\ last.pos0 > 0 /\ stream.pos < Len(stream.data)

\* C32: when a call of next has returned (an item, an error or None) the
\* state is Some(..); every call is made in a state that is Some(..), a
\* top-level record is decoded by a call that looked for a top-level tag and
\* a Dump by a call that was in, or entered, a dump segment.
C32_StateNeverEmpty ==
    /\ (Called /\ last.ret.kind \in {"item", "err", "none"})
           => state.tag \in {"InNormal", "InData", "Eof"}
    /\ Called => last.from.tag \in {"InNormal", "InData", "Eof"}
    /\ (last.ret.kind = "item" /\ last.ret.rec # "Dump") => (Looked /\ state.tag = "InNormal")
    /\ (last.ret.kind = "item" /\ last.ret.rec = "Dump") => (InSegment /\ state.tag = "InData")

\* A read of the closure of read_data_record failed with `?`, after the
\* state was taken; the call returned the error.
C32_Witness ==
    /\ last.from.tag = "InData" /\ last.left = <<>>
    /\ last.ret.kind = "err" /\ last.ret.rec = "UnexpectedEof"
    /\ stream.pos > last.pos0 + 1
    /\ state.tag = "Eof"

\* Whether the call was the decoding of an InstanceDump whose header was read
\* whole, and the walk down its class chain met a class a second time with no
\* byte of instance data read in between.
InstCycle == InstComplete /\ InstWalk.end = "loop"

\* C33: decoding an InstanceDump ends for every content of the class table,
\* one with a cycle of super-class links through classes without instance
\* fields included: no call of next stays in the walk down the class chain.
C33_InstanceDumpEnds == last.ret.kind # "hang"


\* Whether the call read the header of a String record whole.
StringCalled == Looked /\ LookPos + 9 <= Len(stream.data) /\ LookTag = 1

\* C34: for every String record, one whose payload_size is smaller than
\* id_size included, the call does not abort the program and takes at most
\* payload_size bytes from the source after the record's header.
C34_StringBounded ==
    StringCalled =>
        /\ last.ret.kind # "panic"
        /\ stream.pos <= LookPos + 9 + HeaderSize(LookPos + 9)


\* The top-level tags whose record is decoded by its layout alone.
FixedTop == {2, 3, 4, 5, 6, 7, 10, 11}

FixedCalled == Looked /\ LookPos + 9 <= Len(stream.data) /\ LookTag \in FixedTop

\* The u32 at position p of the source, as far as it matters for a source
\* of this length; 0 where the source ends before it.
CountAt(p) ==
    IF p + 4 > Len(stream.data) THEN 0
    ELSE IF SubSeq(stream.data, p + 1, p + 2) # <<0, 0>> THEN Len(stream.data) + 1
    ELSE Min(BE(SubSeq(stream.data, p + 3, p + 4)), Len(stream.data) + 1)

\* The bytes the layout of the record with tag `tag` takes, its body at p.
LayoutSize(tag, p) ==
    CASE tag = 2 -> 8 + 2 * hprof.id_size
      [] tag \in {3, 11} -> 4
      [] tag = 4 -> 4 * hprof.id_size + 8
      [] tag = 5 -> 12 + CountAt(p + 8) * hprof.id_size
      [] tag = 6 -> 34 + CountAt(p + 30) * 25
      [] tag = 7 -> 24
      [] tag = 10 -> 8 + 4 * hprof.id_size

\* The call started at a HEAP_DUMP_END header whose payload_size is not 0.
EndWithPayload ==
    /\ Called /\ last.from.tag = "InNormal"
    /\ last.pos0 + 9 <= Len(stream.data)
    /\ stream.data[last.pos0 + 1] = 44
    /\ HeaderSize(last.pos0 + 9) # 0

\* C35: a top-level record other than String, HeapDump and HeapDumpSegment
\* is decoded by the layout of its tag alone, whatever its payload_size: a
\* record whose layout the source holds is yielded with exactly the bytes of
\* the layout consumed, so the next tag is read at the end of the header
\* plus the layout size; a HeapDumpEnd consumes its header only, also with a
\* payload_size that is not 0.
C35_LayoutAlone ==
    /\ (FixedCalled /\ LookPos + 9 + LayoutSize(LookTag, LookPos + 9) <= Len(stream.data)) =>
         /\ last.ret.kind = "item" /\ last.ret.rec = RecordName(LookTag)
         /\ stream.pos = LookPos + 9 + LayoutSize(LookTag, LookPos + 9)
         /\ state.tag = "InNormal"
    /\ (FixedCalled /\ last.ret.kind = "item") =>
         stream.pos = LookPos + 9 + LayoutSize(LookTag, LookPos + 9)
    /\ EndWithPayload =>
         /\ LookPos >= last.pos0 + 9 /\ stream.pos >= LookPos
         /\ (LookPos = Len(stream.data) /\ stream.end = "eof") => last.ret.kind = "none"
         /\ (LookPos + 9 <= Len(stream.data) /\ LookTag \notin KnownTop) =>
              /\ last.ret.rec = "UnknownPacket"
              /\ last.ret.vals = <<LookTag, HeaderSize(LookPos + 9)>>
              /\ stream.pos = LookPos + 9

\* An EndThread record with payload_size 6 was yielded with 4 bytes of body
\* consumed, and this call read the two bytes left as the next tag.
C35_Witness ==
    /\ last.prev.kind = "item" /\ last.prev.rec = "EndThread"
    /\ last.from.tag = "InNormal" /\ last.pos0 = 13
    /\ Len(stream.data) >= 22 /\ HeaderSize(9) = 6
    /\ LookPos = 13 /\ LookTag = 0
    /\ last.ret.rec = "UnknownPacket" /\ stream.pos = 22


\* Both decoders were called on the source, one after the other.
BothDecoded == last.call.f # "" /\ last.call.before # "" /\ last.call.f # last.call.before

\* C36: the two decoders of a ClassDump body agree: on the same bytes
\* read_class_description and read_data_20_class_dump return the same
\* result and consume the same number of bytes.
C36_DecodersAgree ==
    BothDecoded => (last.ret = last.prev /\ stream.pos = last.call.end)


\* C37: the class table changes only when a ClassDump subrecord is decoded:
\* a call of next that leaves another table than it found has yielded the
\* Dump of a ClassDump; every other record or subrecord, and a ClassDump or
\* an InstanceDump that fails part-way, leaves the table as it was.
C37_TableFrame ==
    [][hprof'.class_info # hprof.class_info =>
          (last'.ret.kind = "item" /\ last'.ret.rec = "Dump" /\ last'.ret.sub = 32)]_vars

\* The ClassDump of class 8 failed after its class id was read; the table
\* holds class 7, described by the call before, and nothing else.
C37_Witness ==
    /\ AtSub(32) /\ SubRoom >= hprof.id_size + 4
    /\ IdAt(SubPos + 1) = Zero4 \o U32B(8)
    /\ last.ret.kind = "err"
    /\ last.prev.kind = "item" /\ last.prev.sub = 32
    /\ DOMAIN hprof.class_info = {Zero4 \o U32B(7)}


\* The call of skip_data that came last, on the source f, and whether fewer
\* bytes than it asked for were left.
SkipCalled(f) == last.ret.kind # "init" /\ last.call.f = f
SkipShort == LenBelow(last.call.len, last.call.size)
SkipPremature == last.ret.kind = "err" /\ last.ret.rec = "PrematureEOF"

\* C38: skip_data(n) returns PrematureEOF exactly when fewer than n bytes
\* are left, and otherwise advances by exactly n bytes; on PrematureEOF the
\* memory source is where it was, and the stream source (one that ends
\* without an I/O error) has consumed every byte that was left.
C38_SkipData ==
    /\ SkipCalled("skip_data") =>
         /\ SkipPremature <=> SkipShort
         /\ ~SkipShort =>
              /\ last.ret.kind = "item"
              /\ stream.pos = last.pos0 + last.call.size[8]
              /\ stream.stop - stream.pos = last.call.len - last.call.size[8]
         /\ SkipShort =>
              (stream.pos = last.pos0 /\ stream.stop - stream.pos = last.call.len)
    /\ (SkipCalled("stream_skip_data") /\ stream.end = "eof") =>
         /\ SkipPremature <=> SkipShort
         /\ ~SkipShort =>
              (last.ret.kind = "item" /\ stream.pos = last.pos0 + last.call.size[8])
         /\ SkipShort => stream.pos = last.pos0 + last.call.len

====
